---- MODULE Spec2Model ----
(***************************************************************************)
(* A model of the Boston officials question-answering service (src/app.py).*)
(* Text is modelled character by character: a Python str is a TLA+ string, *)
(* read with Len, SubSeq and \o, so that substring tests, word boundaries  *)
(* and regular expressions behave as they do in the source.                *)
(***************************************************************************)
EXTENDS Integers, Sequences, FiniteSets, TLC

(***************************************************************************)
(* Python str and re primitives used by src/app.py                         *)
(***************************************************************************)
LowerLetters == "abcdefghijklmnopqrstuvwxyz"
UpperLetters == "ABCDEFGHIJKLMNOPQRSTUVWXYZ"
DigitChars == "0123456789"

Char(s, i) == SubSeq(s, i, i)

CharsOf(a) == {Char(a, i) : i \in 1..Len(a)}
LowerSet == CharsOf(LowerLetters)
UpperSet == CharsOf(UpperLetters)
DigitSet == CharsOf(DigitChars)

\* 1-based position of character c in alphabet a, 0 when absent
IndexIn(c, a) ==
  IF \E i \in 1..Len(a) : Char(a, i) = c
  THEN CHOOSE i \in 1..Len(a) : Char(a, i) = c
  ELSE 0

IsLowerCh(c) == c \in LowerSet
IsUpperCh(c) == c \in UpperSet
IsDigitCh(c) == c \in DigitSet
\* \w of the re module (ASCII letters, digits, underscore)
IsWordCh(c) == IsLowerCh(c) \/ IsUpperCh(c) \/ IsDigitCh(c) \/ c = "_"
\* \s of the re module
IsSpaceCh(c) == c \in {" ", "\n", "\t", "\r", "\f"}

ToLowerCh(c) == IF IsUpperCh(c) THEN Char(LowerLetters, IndexIn(c, UpperLetters)) ELSE c
ToUpperCh(c) == IF IsLowerCh(c) THEN Char(UpperLetters, IndexIn(c, LowerLetters)) ELSE c

\* str.lower(), character by character (split in halves to keep the recursion shallow)
RECURSIVE lower(_)
lower(s) ==
  IF Len(s) = 0 THEN ""
  ELSE IF Len(s) = 1 THEN ToLowerCh(s)
  ELSE LET h == Len(s) \div 2
       IN lower(SubSeq(s, 1, h)) \o lower(SubSeq(s, h + 1, Len(s)))

\* least member of a non-empty set of integers
MinOf(S) == CHOOSE x \in S : \A y \in S : x <= y
\* greatest member of a non-empty set of integers
MaxOf(S) == CHOOSE x \in S : \A y \in S : x >= y

\* str.strip()
strip(s) ==
  LET keep == {i \in 1..Len(s) : ~IsSpaceCh(Char(s, i))}
  IN IF keep = {} THEN "" ELSE SubSeq(s, MinOf(keep), MaxOf(keep))

\* s[i:] of a 1-based position i
From(s, i) == SubSeq(s, i, Len(s))

\* does needle occur in s starting exactly at position i
OccursAt(s, needle, i) ==
  /\ i >= 1
  /\ i + Len(needle) - 1 <= Len(s)
  /\ SubSeq(s, i, i + Len(needle) - 1) = needle

\* needle in s
Contains(s, needle) == \E i \in 1..(Len(s) - Len(needle) + 1) : OccursAt(s, needle, i)

\* any(k in s for k in keywords), keywords a list
ContainsAny(s, keywords) == \E k \in 1..Len(keywords) : Contains(s, keywords[k])

\* \b of the re module at the gap before position i (1..Len(s)+1)
WordBoundary(s, i) ==
  LET before == i > 1 /\ IsWordCh(Char(s, i - 1))
      after == i <= Len(s) /\ IsWordCh(Char(s, i))
  IN before # after

\* end of the maximal run starting at i of characters of the class (i - 1 when none)
RunEnd(s, i, class) ==
  LET stops == {j \in i..Len(s) : Char(s, j) \notin class}
  IN IF stops = {} THEN Len(s) ELSE MinOf(stops) - 1

LowerRunEnd(s, i) == RunEnd(s, i, LowerSet)
DigitRunEnd(s, i) == RunEnd(s, i, DigitSet)
SpaceRunEnd(s, i) == RunEnd(s, i, {" ", "\n", "\t", "\r", "\f"})

\* positions i of s where the lowercase word w stands between word boundaries,
\* compared case-insensitively
WordHits(s, w) ==
  LET sl == lower(s)
  IN {i \in 1..Len(s) : OccursAt(sl, w, i) /\ WordBoundary(s, i) /\ WordBoundary(s, i + Len(w))}

RECURSIVE SubWordFrom(_, _, _, _, _)
SubWordFrom(s, w, rep, hits, i) ==
  LET rest == {h \in hits : h >= i}
  IN IF rest = {} THEN From(s, i)
     ELSE LET h == MinOf(rest)
          IN SubSeq(s, i, h - 1) \o rep \o SubWordFrom(s, w, rep, hits, h + Len(w))

\* re.sub(r'\bw\b', rep, s, flags=re.IGNORECASE) for a lowercase literal word w
SubWord(s, w, rep) == SubWordFrom(s, w, rep, WordHits(s, w), 1)

(***************************************************************************)
(* The Title Case name pattern shared by extract_entities,                 *)
(* extract_search_terms and analyze_query_intent:                          *)
(* two capitalised words joined by one blank, then any number of further  *)
(* capitalised words each after one whitespace, between word boundaries.   *)
(***************************************************************************)
\* end of "[A-Z][a-z]+" starting at i, 0 when it does not match there
CapWordEnd(s, i) ==
  IF i <= Len(s) /\ IsUpperCh(Char(s, i)) /\ LowerRunEnd(s, i + 1) >= i + 1
  THEN LowerRunEnd(s, i + 1)
  ELSE 0

\* the greedy repetition of "\s[A-Z][a-z]+" from end e: <<previous end, last end>>
RECURSIVE CapChain(_, _, _)
CapChain(s, prev, e) ==
  IF e + 1 <= Len(s) /\ IsSpaceCh(Char(s, e + 1)) /\ CapWordEnd(s, e + 2) > 0
  THEN CapChain(s, e, CapWordEnd(s, e + 2))
  ELSE <<prev, e>>

\* end of the match of the name pattern starting at i, 0 when there is none
NameEndAt(s, i) ==
  LET e1 == CapWordEnd(s, i)
      e2 == IF e1 > 0 /\ e1 + 1 <= Len(s) /\ Char(s, e1 + 1) = " "
            THEN CapWordEnd(s, e1 + 2) ELSE 0
      ch == CapChain(s, 0, e2)
  IN IF ~WordBoundary(s, i) \/ e2 = 0 THEN 0
     ELSE IF WordBoundary(s, ch[2] + 1) THEN ch[2]
     ELSE ch[1]   \* backtrack one repetition; 0 when the second word itself fails

RECURSIVE FindNamesFrom(_, _, _)
FindNamesFrom(s, starts, i) ==
  LET rest == {j \in starts : j >= i}
  IN IF rest = {} THEN <<>>
     ELSE LET b == MinOf(rest)
              e == NameEndAt(s, b)
          IN <<SubSeq(s, b, e)>> \o FindNamesFrom(s, starts, e + 1)

\* re.findall(name_pattern, s): the non-overlapping matches, left to right
FindNames(s) == FindNamesFrom(s, {i \in 1..Len(s) : NameEndAt(s, i) > 0}, 1)

(***************************************************************************)
(* district\s+(\d+)                                                        *)
(***************************************************************************)
\* <<first digit, last digit>> of the match starting at i, <<0, 0>> when none
DistrictAt(s, i) ==
  LET w == i + Len("district")
      sp == SpaceRunEnd(s, w)
      d == DigitRunEnd(s, sp + 1)
  IN IF OccursAt(s, "district", i) /\ sp >= w /\ d >= sp + 1
     THEN <<sp + 1, d>> ELSE <<0, 0>>

RECURSIVE FindDistrictsFrom(_, _, _)
FindDistrictsFrom(s, starts, i) ==
  LET rest == {j \in starts : j >= i}
  IN IF rest = {} THEN <<>>
     ELSE LET m == DistrictAt(s, MinOf(rest))
          IN <<SubSeq(s, m[1], m[2])>> \o FindDistrictsFrom(s, starts, m[2] + 1)

\* re.findall(r'district\s+(\d+)', s): the digit groups
FindDistricts(s) == FindDistrictsFrom(s, {i \in 1..Len(s) : DistrictAt(s, i)[1] > 0}, 1)

\* re.search(r'district\s+(\d+)', s): <<>> when no match, else <<digits>>
SearchDistrict(s) ==
  LET all == FindDistricts(s) IN IF all = <<>> THEN <<>> ELSE <<all[1]>>

\* the members of a list of keywords that occur in s, in list order
RECURSIVE KeywordsIn(_, _, _)
KeywordsIn(s, keywords, k) ==
  IF k > Len(keywords) THEN <<>>
  ELSE (IF Contains(s, keywords[k]) THEN <<keywords[k]>> ELSE <<>>)
       \o KeywordsIn(s, keywords, k + 1)

(***************************************************************************)
(* ConversationContext.extract_entities                                    *)
(***************************************************************************)
office_keywords == <<"mayor", "governor", "senator", "representative", "councilor", "attorney general">>
party_keywords == <<"democrat", "republican", "nonpartisan", "independent">>
concept_keywords == <<"salary", "election", "term", "office", "contact", "phone", "email">>

\* an extraction that looks for the keywords in the text as written
extract_entities_case_sensitive(text) ==
  [people |-> FindNames(text),
   offices |-> KeywordsIn(text, office_keywords, 1),
   districts |-> FindDistricts(lower(text)),
   parties |-> KeywordsIn(text, party_keywords, 1),
   concepts |-> KeywordsIn(text, concept_keywords, 1)]

extract_entities(text) ==
  LET text_lower == lower(text)
  IN [people |-> FindNames(text),
      offices |-> KeywordsIn(text_lower, office_keywords, 1),
      districts |-> FindDistricts(text_lower),
      parties |-> KeywordsIn(text_lower, party_keywords, 1),
      concepts |-> KeywordsIn(text_lower, concept_keywords, 1)]

(***************************************************************************)
(* ConversationContext: the session table and query enhancement            *)
(***************************************************************************)
\* the history cap of add_exchange
HistoryCap == 20

\* seq[-n:]
LastN(seq, n) == SubSeq(seq, IF Len(seq) > n THEN Len(seq) - n + 1 ELSE 1, Len(seq))

\* the state get_session creates for an unknown session id
NewSession ==
  [history |-> <<>>, current_entities |-> <<>>, context_stack |-> <<>>, user_patterns |-> <<>>]

\* a lookup that gives a new session state on every reference
get_session_fresh(table, session_id) ==
  [s \in DOMAIN table \cup {session_id} |-> IF s = session_id THEN NewSession ELSE table[s]]

\* get_session: the table after the lookup (the session is created when missing)
get_session(table, session_id) ==
  IF session_id \in DOMAIN table THEN table ELSE table @@ (session_id :> NewSession)

\* the "people" entities of a list of exchanges, concatenated in order
RECURSIVE PeopleOf(_)
PeopleOf(exchanges) ==
  IF exchanges = <<>> THEN <<>>
  ELSE Head(exchanges).entities.people \o PeopleOf(Tail(exchanges))

\* [name for name in names if name in allowed]
RECURSIVE FilterIn(_, _)
FilterIn(names, allowed) ==
  IF names = <<>> THEN <<>>
  ELSE (IF Head(names) \in allowed THEN <<Head(names)>> ELSE <<>>) \o FilterIn(Tail(names), allowed)

female_officials ==
  {"Michelle Wu", "Elizabeth Warren", "Ayanna Pressley", "Maura Healey", "Andrea Campbell", "Kim Driscoll"}
male_officials == {"Ed Markey", "Stephen Lynch", "Ed Flynn", "Nick Collins"}
\* the name substituted for a feminine pronoun when no recent name matches
DefaultFemale == "Michelle Wu"

\* a feminine branch that takes the earliest recent name instead of the latest
ResolveFeminine_earliest(query, recent_people) ==
  IF ContainsAny(lower(query), <<"she", "her", "hers">>)
  THEN LET recent_females == FilterIn(recent_people, female_officials)
           target_name == IF recent_females # <<>> THEN recent_females[1] ELSE DefaultFemale
       IN SubWord(SubWord(SubWord(query, "she", target_name), "her", target_name),
                  "hers", target_name)
  ELSE query

\* the feminine branch of resolve_pronouns
ResolveFeminine(query, recent_people) ==
  IF ContainsAny(lower(query), <<"she", "her", "hers">>)
  THEN LET recent_females == FilterIn(recent_people, female_officials)
           target_name == IF recent_females # <<>>
                          THEN recent_females[Len(recent_females)]
                          ELSE DefaultFemale
       IN SubWord(SubWord(SubWord(query, "she", target_name), "her", target_name),
                  "hers", target_name)
  ELSE query

\* a masculine branch that falls back to a default name
ResolveMasculine_with_default(query, query_lower, recent_people) ==
  LET recent_males == FilterIn(recent_people, male_officials)
  IN IF ContainsAny(query_lower, <<"he", "him", "his">>)
     THEN LET target_name == IF recent_males # <<>> THEN recent_males[Len(recent_males)]
                             ELSE "Ed Markey"
          IN SubWord(SubWord(SubWord(query, "he", target_name), "him", target_name),
                     "his", target_name)
     ELSE query

\* the masculine branch of resolve_pronouns; query_lower is of the original query
ResolveMasculine(query, query_lower, recent_people) ==
  LET recent_males == FilterIn(recent_people, male_officials)
  IN IF ContainsAny(query_lower, <<"he", "him", "his">>) /\ recent_males # <<>>
     THEN LET target_name == recent_males[Len(recent_males)]
          IN SubWord(SubWord(SubWord(query, "he", target_name), "him", target_name),
                     "his", target_name)
     ELSE query

\* a resolution that looks at the people of the whole history
resolve_pronouns_whole_history(query, session) ==
  LET recent_people == PeopleOf(session.history)
  IN ResolveMasculine(ResolveFeminine(query, recent_people), lower(query), recent_people)

resolve_pronouns(query, session) ==
  LET recent_people == PeopleOf(LastN(session.history, 3))
  IN ResolveMasculine(ResolveFeminine(query, recent_people), lower(query), recent_people)

salary_words == <<"salary", "pay", "money", "earn", "make", "income">>
time_phrases == <<"how long", "when did", "since when", "term", "been in office", "how long has">>
subject_words == <<"who", "what", "michelle", "elizabeth">>

enhance_query_with_context(query, session) ==
  LET resolved == resolve_pronouns(query, session)
      query_lower == lower(resolved)
      recent_people == PeopleOf(LastN(session.history, 2))
      unnamed == ~ContainsAny(query_lower, subject_words)
      after_salary ==
        IF ContainsAny(query_lower, salary_words) /\ unnamed /\ recent_people # <<>>
        THEN recent_people[Len(recent_people)] \o " " \o resolved
        ELSE resolved
  IN IF ContainsAny(query_lower, time_phrases) /\ unnamed
     THEN IF recent_people # <<>>
          THEN recent_people[Len(recent_people)] \o " " \o after_salary
          ELSE IF Contains(query_lower, "governor")
               THEN SubWord(after_salary, "governor", "Maura Healey")
               ELSE after_salary
     ELSE after_salary

\* the exchange add_exchange builds; now is the time of the call
Exchange(query, response, now) ==
  [query |-> query, response |-> response,
   entities |-> extract_entities(query \o " " \o response), timestamp |-> now]

\* a history limit that keeps every exchange
Trimmed_keep_all(history) == history

\* the history limit of add_exchange: only the last HistoryCap exchanges stay
\* a trim that keeps the oldest exchanges instead of the newest
Trimmed_keep_oldest(history) ==
  IF Len(history) > HistoryCap THEN SubSeq(history, 1, HistoryCap) ELSE history

Trimmed(history) ==
  IF Len(history) > HistoryCap THEN LastN(history, HistoryCap) ELSE history

\* an append that, on a full history, puts the exchange in the place of the
\* newest one
Recorded_replaces_newest(session, exchange) ==
  [session EXCEPT
     !.history = IF Len(session.history) >= HistoryCap
                 THEN Append(SubSeq(session.history, 1, Len(session.history) - 1), exchange)
                 ELSE Append(session.history, exchange),
     !.current_entities = exchange.entities]

\* the session after add_exchange appended the exchange
Recorded(session, exchange) ==
  [session EXCEPT !.history = Trimmed(Append(session.history, exchange)),
                  !.current_entities = exchange.entities]

\* add_exchange: the table afterwards; now is the time of the call
add_exchange(table, session_id, query, response, now) ==
  [get_session(table, session_id) EXCEPT
     ![session_id] = Recorded(@, Exchange(query, response, now))]

(***************************************************************************)
(* extract_search_terms                                                    *)
(***************************************************************************)
\* a missing result (None, no match) is <<>>, a present one <<value>>
Nothing == <<>>
Just(v) == <<v>>

\* the offices dict, in insertion order: <<keyword, returned word>>
offices ==
  << <<"mayor", "mayor">>, <<"governor", "governor">>, <<"senator", "senator">>,
     <<"representative", "representative">>, <<"councilor", "councilor">>,
     <<"councillor", "councilor">> >>

\* rule 1: the first office keyword (in dict order) that occurs in the query
OfficeRule(query_lower) ==
  LET hits == {k \in 1..Len(offices) : Contains(query_lower, offices[k][1])}
  IN IF hits = {} THEN Nothing ELSE Just(offices[MinOf(hits)][2])

\* rule 2: the first Title Case name of the original-case query
NameRule(original_query) ==
  LET names == FindNames(original_query)
  IN IF names = <<>> THEN Nothing ELSE Just(names[1])

\* the greedy repetition of "\s[a-z]+" from end e: <<previous end, last end>>
RECURSIVE LowChain(_, _, _)
LowChain(s, prev, e) ==
  IF e + 1 <= Len(s) /\ IsSpaceCh(Char(s, e + 1)) /\ LowerRunEnd(s, e + 2) >= e + 2
  THEN LowChain(s, e, LowerRunEnd(s, e + 2))
  ELSE <<prev, e>>

\* the group of "\b<prefix>\s+([a-z]+ [a-z]+(\s[a-z]+)...)\s+" matched at i:
\* <<first, last>>, or <<0, 0>> when the pattern does not match at i
PrefixGroupAt(s, prefix, i) ==
  LET p == i + Len(prefix)
      sp == SpaceRunEnd(s, p)
      g == sp + 1
      e1 == LowerRunEnd(s, g)
      e2 == IF e1 >= g /\ e1 + 1 <= Len(s) /\ Char(s, e1 + 1) = " "
            THEN LowerRunEnd(s, e1 + 2) ELSE 0
      ch == LowChain(s, 0, e2)
      followed(e) == e + 1 <= Len(s) /\ IsSpaceCh(Char(s, e + 1))
  IN IF ~(WordBoundary(s, i) /\ OccursAt(s, prefix, i) /\ sp >= p /\ e2 >= e1 + 2)
     THEN <<0, 0>>
     ELSE IF followed(ch[2]) THEN <<g, ch[2]>>
     ELSE IF ch[1] > 0 THEN <<g, ch[1]>>   \* backtrack one repetition
     ELSE <<0, 0>>

\* the group of "\b([a-z]+ [a-z]+)('s|s)\b" matched at i, or <<0, 0>>
PossessiveGroupAt(s, i) ==
  LET e1 == LowerRunEnd(s, i)
      e2 == IF e1 >= i /\ e1 + 1 <= Len(s) /\ Char(s, e1 + 1) = " "
            THEN LowerRunEnd(s, e1 + 2) ELSE 0
  IN IF ~(WordBoundary(s, i) /\ e2 >= e1 + 2) THEN <<0, 0>>
     ELSE IF OccursAt(s, "'s", e2 + 1) /\ WordBoundary(s, e2 + 3) THEN <<i, e2>>
     ELSE IF e2 - 1 >= e1 + 2 /\ Char(s, e2) = "s" /\ WordBoundary(s, e2 + 1)
          THEN <<i, e2 - 1>>
     ELSE <<0, 0>>

\* the patterns list, in order: the prefix of a question pattern, or "" for
\* the possessive pattern
patterns == <<"did", "where did", "what did", "what does", "">>

\* the group of the k-th pattern matched at i, or <<0, 0>>
GroupAt(s, k, i) ==
  IF patterns[k] = "" THEN PossessiveGroupAt(s, i) ELSE PrefixGroupAt(s, patterns[k], i)

\* match.group(1) of a group <<first, last>>
GroupText(s, m) == SubSeq(s, m[1], m[2])

\* re.search(pattern, s) for the k-th pattern: the group of the leftmost
\* match, Nothing when there is none
SearchGroup(s, k) ==
  IF \E i \in 1..Len(s) : GroupAt(s, k, i)[1] > 0
  THEN Just(GroupText(s, GroupAt(s, k, MinOf({i \in 1..Len(s) : GroupAt(s, k, i)[1] > 0}))))
  ELSE Nothing

\* ' '.join(word.capitalize() for word in g.split()) of a group of lowercase
\* words separated by single whitespace characters
RECURSIVE CapitalizeRange(_, _, _)
CapitalizeRange(g, lo, hi) ==
  IF lo > hi THEN ""
  ELSE IF lo = hi
       THEN IF IsSpaceCh(Char(g, lo)) THEN " "
            ELSE IF lo = 1 \/ IsSpaceCh(Char(g, lo - 1)) THEN ToUpperCh(Char(g, lo))
            ELSE Char(g, lo)
  ELSE LET mid == (lo + hi) \div 2
       IN CapitalizeRange(g, lo, mid) \o CapitalizeRange(g, mid + 1, hi)

CapitalizeWords(g) == CapitalizeRange(g, 1, Len(g))

\* the first pattern of the list that matches, 0 when none does
FirstPattern(query_lower) ==
  IF \E k \in 1..Len(patterns) : SearchGroup(query_lower, k) # Nothing
  THEN MinOf({k \in 1..Len(patterns) : SearchGroup(query_lower, k) # Nothing})
  ELSE 0

\* rules 3 and 4: the patterns list, tried in order
PatternRule(query_lower) ==
  IF FirstPattern(query_lower) = 0 THEN Nothing
  ELSE Just(CapitalizeWords(SearchGroup(query_lower, FirstPattern(query_lower))[1]))

\* rule 5
DistrictRule(query_lower) ==
  LET m == SearchDistrict(query_lower)
  IN IF m = <<>> THEN Nothing ELSE Just("district " \o m[1])

\* the alternation of the fallback's re.sub, in pattern order
stop_phrases ==
  <<"who is", "what is", "tell me about", "show me", "find", "search for", "about",
    "the", "of", "boston", "educational", "background", "policy", "focus", "career",
    "did", "does", "where", "what", "has", "been", "in", "office">>

\* length of the stop phrase removed at position i, 0 when none matches there
StopLenAt(s, i) ==
  LET fits == {k \in 1..Len(stop_phrases) :
                 OccursAt(s, stop_phrases[k], i) /\ WordBoundary(s, i + Len(stop_phrases[k]))}
  IN IF ~WordBoundary(s, i) \/ fits = {} THEN 0 ELSE Len(stop_phrases[MinOf(fits)])

RECURSIVE RemoveStopsFrom(_, _, _)
RemoveStopsFrom(s, hits, i) ==
  LET rest == {h \in hits : h >= i}
  IN IF rest = {} THEN From(s, i)
     ELSE LET h == MinOf(rest)
          IN SubSeq(s, i, h - 1) \o RemoveStopsFrom(s, hits, h + StopLenAt(s, h))

\* rule 6: the fallback
FallbackRule(query, query_lower) ==
  LET query_cleaned ==
        strip(RemoveStopsFrom(query_lower, {i \in 1..Len(query_lower) : StopLenAt(query_lower, i) > 0}, 1))
  IN IF query_cleaned # "" THEN query_cleaned ELSE query

\* an extraction that looks for a Title-Case name before an office keyword
extract_search_terms_name_first(query) ==
  LET query_lower == strip(lower(query))
      original_query == strip(query)
  IN IF NameRule(original_query) # Nothing THEN NameRule(original_query)[1]
     ELSE IF OfficeRule(query_lower) # Nothing THEN OfficeRule(query_lower)[1]
     ELSE IF PatternRule(query_lower) # Nothing THEN PatternRule(query_lower)[1]
     ELSE IF DistrictRule(query_lower) # Nothing THEN DistrictRule(query_lower)[1]
     ELSE FallbackRule(query, query_lower)

extract_search_terms(query) ==
  LET query_lower == strip(lower(query))
      original_query == strip(query)
  IN IF OfficeRule(query_lower) # Nothing THEN OfficeRule(query_lower)[1]
     ELSE IF NameRule(original_query) # Nothing THEN NameRule(original_query)[1]
     ELSE IF PatternRule(query_lower) # Nothing THEN PatternRule(query_lower)[1]
     ELSE IF DistrictRule(query_lower) # Nothing THEN DistrictRule(query_lower)[1]
     ELSE FallbackRule(query, query_lower)

(***************************************************************************)
(* QueryAnalyzer.analyze_query_intent                                      *)
(***************************************************************************)
detail_phrases == <<"what is", "tell me about", "about", "details">>
basic_phrases == <<"who is", "who">>

\* target_mappings, in insertion order: <<target, keywords>>
target_mappings ==
  << <<"salary", <<"salary", "pay", "money", "earn", "make", "income">> >>,
     <<"time_in_office", <<"how long", "when did", "since when", "term", "been in office", "how long has">> >>,
     <<"contact", <<"contact", "email", "phone", "reach">> >>,
     <<"party", <<"party", "democrat", "republican", "affiliation">> >>,
     <<"education", <<"education", "educational", "school", "college", "university", "degree",
                      "studied", "graduate", "graduated", "attend", "attended", "alma mater">> >>,
     <<"career", <<"career", "background", "before office", "work", "job", "experience", "worked",
                   "did before", "previous job", "used to do", "profession", "occupation">> >>,
     <<"policy", <<"policy", "policies", "focus", "focuses", "issues", "priorities", "works on",
                   "champions", "believe", "believes", "stands for", "fights for", "supports",
                   "cares about", "passionate about", "agenda", "platform", "positions", "views",
                   "stance", "advocates", "committed to">> >> >>

RECURSIVE TargetsIn(_, _)
TargetsIn(query_lower, k) ==
  IF k > Len(target_mappings) THEN <<>>
  ELSE (IF ContainsAny(query_lower, target_mappings[k][2])
        THEN <<target_mappings[k][1]>> ELSE <<>>) \o TargetsIn(query_lower, k + 1)

RECURSIVE PrefixEach(_, _)
PrefixEach(prefix, items) ==
  IF items = <<>> THEN <<>> ELSE <<prefix \o Head(items)>> \o PrefixEach(prefix, Tail(items))

\* an analysis that tests the basic phrases before the detail phrases
analyze_query_intent_who_first(query) ==
  LET query_lower == strip(lower(query))
  IN [intent_type |-> "general_search",
      detail_level |-> IF ContainsAny(query_lower, basic_phrases) THEN "basic"
                       ELSE IF ContainsAny(query_lower, detail_phrases) THEN "detailed"
                       ELSE "basic",
      target_info |-> TargetsIn(query_lower, 1),
      search_entities |->
        FindNames(query)
        \o KeywordsIn(query_lower, <<"mayor", "governor", "senator", "representative", "councilor">>, 1)
        \o PrefixEach("district ", FindDistricts(query_lower))]

\* temporal_aspect is always None and never read; it is left out
analyze_query_intent(query) ==
  LET query_lower == strip(lower(query))
  IN [intent_type |-> "general_search",
      detail_level |-> IF ContainsAny(query_lower, detail_phrases) THEN "detailed"
                       ELSE IF ContainsAny(query_lower, basic_phrases) THEN "basic"
                       ELSE "basic",
      target_info |-> TargetsIn(query_lower, 1),
      search_entities |->
        FindNames(query)
        \o KeywordsIn(query_lower, <<"mayor", "governor", "senator", "representative", "councilor">>, 1)
        \o PrefixEach("district ", FindDistricts(query_lower))]

(***************************************************************************)
(* fuzzy_match and normalize_search_term                                   *)
(* difflib.SequenceMatcher(None, a, b).ratio() without junk: the longest   *)
(* common block (earliest in a, then earliest in b), then the same on both *)
(* sides of it; ratio = 2 * matched / (len(a) + len(b)).                   *)
(***************************************************************************)
\* length of the common run of a from i and b from j within a[..ahi], b[..bhi]
CommonRun(a, b, i, j, ahi, bhi) ==
  IF Char(a, i) # Char(b, j) THEN 0
  ELSE LET lim == IF ahi - i < bhi - j THEN ahi - i + 1 ELSE bhi - j + 1
           diff == {k \in 1..(lim - 1) : Char(a, i + k) # Char(b, j + k)}
       IN IF diff = {} THEN lim ELSE MinOf(diff)

\* find_longest_match over a[alo..ahi], b[blo..bhi] (inclusive): <<i, j, size>>
find_longest_match(a, b, alo, ahi, blo, bhi) ==
  LET runs == {<<i, j, CommonRun(a, b, i, j, ahi, bhi)>> : i \in alo..ahi, j \in blo..bhi}
      best == MaxOf({r[3] : r \in runs} \cup {0})
      firstI == MinOf({r[1] : r \in {x \in runs : x[3] = best}})
      firstJ == MinOf({r[2] : r \in {x \in runs : x[3] = best /\ x[1] = firstI}})
  IN IF best = 0 THEN <<alo, blo, 0>> ELSE <<firstI, firstJ, best>>

\* sum of the sizes of get_matching_blocks over a[alo..ahi], b[blo..bhi]
RECURSIVE Matched(_, _, _, _, _, _)
Matched(a, b, alo, ahi, blo, bhi) ==
  IF alo > ahi \/ blo > bhi THEN 0
  ELSE LET m == find_longest_match(a, b, alo, ahi, blo, bhi)
       IN IF m[3] = 0 THEN 0
          ELSE m[3] + Matched(a, b, alo, m[1] - 1, blo, m[2] - 1)
                    + Matched(a, b, m[1] + m[3], ahi, m[2] + m[3], bhi)

\* SequenceMatcher(None, a, b).ratio() >= tenths / 10 (the ratio of two empty
\* strings is 1.0)
RatioAtLeast(a, b, tenths) ==
  LET total == Len(a) + Len(b)
  IN IF total = 0 THEN TRUE
     ELSE 2 * Matched(a, b, 1, Len(a), 1, Len(b)) * 10 >= tenths * total

\* fuzzy_match(text1, text2, threshold) with the threshold given in tenths
fuzzy_match(text1, text2, tenths) == RatioAtLeast(lower(text1), lower(text2), tenths)

\* the default threshold of fuzzy_match (0.6) and the one normalize_search_term passes (0.8)
DefaultThresholdTenths == 6
NormalizeThresholdTenths == 8

\* in insertion order: <<standard name, variations>>
NEIGHBORHOOD_VARIATIONS ==
  << <<"roslindale", <<"roslindale", "roslindal", "roslindail">> >>,
     <<"jamaica plain", <<"jamaica plain", "jamaca plain", "jamaicaplain", "jp">> >>,
     <<"south end", <<"south end", "southend", "south-end">> >>,
     <<"back bay", <<"back bay", "backbay", "back-bay">> >>,
     <<"charlestown", <<"charlestown", "charleston", "charestown">> >>,
     <<"east boston", <<"east boston", "eastboston", "east-boston", "eastie">> >>,
     <<"north end", <<"north end", "northend", "north-end">> >>,
     <<"allston", <<"allston", "alston", "alliston">> >>,
     <<"brighton", <<"brighton", "britton", "bryton">> >>,
     <<"roxbury", <<"roxbury", "roxbery", "roxburry">> >>,
     <<"dorchester", <<"dorchester", "dorchestor", "dorchster", "dot">> >>,
     <<"west roxbury", <<"west roxbury", "westroxbury", "west-roxbury">> >>,
     <<"hyde park", <<"hyde park", "hydepark", "hyde-park">> >>,
     <<"mission hill", <<"mission hill", "missionhill", "mission-hill">> >> >>

OFFICE_VARIATIONS ==
  << <<"mayor", <<"mayor", "mayer", "major">> >>,
     <<"city councilor", <<"city councilor", "city councilman", "councilor", "councilman", "council member">> >>,
     <<"state senator", <<"state senator", "senator", "state senate">> >>,
     <<"state representative", <<"state representative", "state rep", "representative", "rep">> >> >>

\* a first-close lookup with the threshold 0.7 instead of 0.8
FirstClose_loose(search_lower, table) ==
  LET hits == {k \in 1..Len(table) :
                 \E v \in 1..Len(table[k][2]) :
                    fuzzy_match(search_lower, table[k][2][v], 7)}
  IN IF hits = {} THEN Nothing ELSE Just(table[MinOf(hits)][1])

\* the first entry of a variation table with a variation close to search_lower:
\* <<standard name>>, or <<>> when no entry matches
FirstClose(search_lower, table) ==
  LET hits == {k \in 1..Len(table) :
                 \E v \in 1..Len(table[k][2]) :
                    fuzzy_match(search_lower, table[k][2][v], NormalizeThresholdTenths)}
  IN IF hits = {} THEN Nothing ELSE Just(table[MinOf(hits)][1])

normalize_search_term(search_term) ==
  LET search_lower == strip(lower(search_term))
      neighborhood == FirstClose(search_lower, NEIGHBORHOOD_VARIATIONS)
      office == FirstClose(search_lower, OFFICE_VARIATIONS)
  IN IF neighborhood # Nothing THEN neighborhood[1]
     ELSE IF office # Nothing THEN office[1]
     ELSE search_term

(***************************************************************************)
(* The officials relation and init_database                                *)
(* A nullable cell is Nothing (NULL, None) or Just(value); name and office *)
(* are NOT NULL and are stored bare.                                       *)
(***************************************************************************)
\* the columns of the INSERT, in order
Columns ==
  <<"name", "office", "district_type", "district_number", "district_area", "email", "phone",
    "website", "x_account", "facebook_page", "level", "party", "term_start_date",
    "next_election_date", "annual_salary", "bio_summary", "education", "career_before_office",
    "key_policy_areas", "committee_memberships", "recent_major_vote", "recent_initiative",
    "campaign_promises", "responsiveness_score", "town_halls_per_year", "office_hours">>
ColumnSet == {Columns[k] : k \in 1..Len(Columns)}
IntegerColumns == {"annual_salary", "responsiveness_score"}

\* value of a string of digits
RECURSIVE DigitsValue(_)
DigitsValue(d) ==
  IF d = "" THEN 0
  ELSE 10 * DigitsValue(SubSeq(d, 1, Len(d) - 1)) + (IndexIn(Char(d, Len(d)), DigitChars) - 1)

IsDigits(d) == d # "" /\ \A i \in 1..Len(d) : IsDigitCh(Char(d, i))

\* int(text): Just(n), or Nothing for ValueError (sign and surrounding blanks
\* allowed; digit-group underscores are not modelled)
ParseInt(text) ==
  LET t == strip(text)
      signed == t # "" /\ Char(t, 1) \in {"+", "-"}
      digits == IF signed THEN From(t, 2) ELSE t
  IN IF ~IsDigits(digits) THEN Nothing
     ELSE Just(IF signed /\ Char(t, 1) = "-" THEN 0 - DigitsValue(digits) ELSE DigitsValue(digits))

\* row.get(column, ''): a cell of a DictReader row; a column missing from the
\* header gives the default, a short row gives None for its missing cells
RowGet(header, row, column) == IF column \in header THEN row[column] ELSE Just("")

\* the integer conversion of init_database (responsiveness_score, annual_salary)
ConvertInt(header, row, column) ==
  LET cell == IF column \in header THEN row[column] ELSE Nothing
  IN IF cell # Nothing /\ cell[1] # "" /\ strip(cell[1]) # "" THEN ParseInt(cell[1]) ELSE Nothing

\* can the row be inserted: row['name'] and row['office'] exist (no KeyError)
\* and are not None (NOT NULL)
RowInsertable(header, row) ==
  /\ "name" \in header /\ "office" \in header
  /\ row["name"] # Nothing /\ row["office"] # Nothing

\* the record the INSERT stores for a row, with its AUTOINCREMENT id
InsertedRecord(header, row, id) ==
  [c \in ColumnSet \cup {"id"} |->
     IF c = "id" THEN id
     ELSE IF c \in {"name", "office"} THEN row[c][1]
     ELSE IF c \in IntegerColumns THEN ConvertInt(header, row, c)
     ELSE RowGet(header, row, c)]

\* the first row of the file that cannot be inserted
FirstRejected(csv) ==
  CHOOSE k \in 1..Len(csv.rows) :
    /\ ~RowInsertable(csv.header, csv.rows[k])
    /\ \A j \in 1..(k - 1) : RowInsertable(csv.header, csv.rows[j])

\* an init_database that keeps the rows inserted before the one that raised
init_database_partial(db, csv, reachable) ==
  IF ~reachable THEN [db |-> db, ok |-> FALSE]
  ELSE IF Len(db) # 0 THEN [db |-> db, ok |-> TRUE]
  ELSE IF ~csv.exists THEN [db |-> db, ok |-> TRUE]
  ELSE IF \E k \in 1..Len(csv.rows) : ~RowInsertable(csv.header, csv.rows[k])
       THEN [db |-> [k \in 1..(FirstRejected(csv) - 1) |->
                       InsertedRecord(csv.header, csv.rows[k], k)],
             ok |-> FALSE]
  ELSE [db |-> [k \in 1..Len(csv.rows) |-> InsertedRecord(csv.header, csv.rows[k], k)],
        ok |-> TRUE]

\* an init_database that loads the file whatever the relation holds
init_database_reloads(db, csv, reachable) ==
  IF ~reachable THEN [db |-> db, ok |-> FALSE]
  ELSE IF ~csv.exists THEN [db |-> db, ok |-> TRUE]
  ELSE IF \E k \in 1..Len(csv.rows) : ~RowInsertable(csv.header, csv.rows[k])
       THEN [db |-> db, ok |-> FALSE]
  ELSE [db |-> db \o [k \in 1..Len(csv.rows) |->
                       InsertedRecord(csv.header, csv.rows[k], Len(db) + k)],
        ok |-> TRUE]

\* init_database on relation db with the file officials.csv given as
\* csv = [exists, header, rows] and a connection that works (reachable) or
\* not: [db |-> the committed relation, ok |-> FALSE when it raised]
init_database(db, csv, reachable) ==
  IF ~reachable THEN [db |-> db, ok |-> FALSE]
  ELSE IF Len(db) # 0 THEN [db |-> db, ok |-> TRUE]
  ELSE IF ~csv.exists THEN [db |-> db, ok |-> TRUE]
  ELSE IF \E k \in 1..Len(csv.rows) : ~RowInsertable(csv.header, csv.rows[k])
       THEN [db |-> db, ok |-> FALSE]   \* raised before the commit: rolled back
  ELSE [db |-> [k \in 1..Len(csv.rows) |-> InsertedRecord(csv.header, csv.rows[k], k)],
        ok |-> TRUE]

(***************************************************************************)
(* search_officials                                                        *)
(***************************************************************************)
\* the printable ASCII characters in code order (BINARY collation), without
\* the double quote, the backslash and the backquote
AsciiOrder ==
  " !#$%&'()*+,-./0123456789:;<=>?@ABCDEFGHIJKLMNOPQRSTUVWXYZ[]^_abcdefghijklmnopqrstuvwxyz{|}~"

\* a < b in BINARY collation
StrLess(a, b) ==
  LET n == IF Len(a) < Len(b) THEN Len(a) ELSE Len(b)
      diff == {i \in 1..n : Char(a, i) # Char(b, i)}
  IN IF diff = {} THEN Len(a) < Len(b)
     ELSE IndexIn(Char(a, MinOf(diff)), AsciiOrder) < IndexIn(Char(b, MinOf(diff)), AsciiOrder)

\* value LIKE '%term%' (ASCII case-insensitive; NULL never matches) for a term
\* without the wildcards % and _
Like(cell, term) == cell # Nothing /\ Contains(lower(cell[1]), lower(term))

\* the rows at the given positions, in row order (the rows a SELECT keeps)
RECURSIVE AtIndices(_, _)
AtIndices(rows, indices) ==
  IF indices = {} THEN <<>>
  ELSE <<rows[MinOf(indices)]>> \o AtIndices(rows, indices \ {MinOf(indices)})

\* LIMIT 1
Limit1(rows) == IF rows = <<>> THEN <<>> ELSE <<rows[1]>>

\* ORDER BY office, name (ties keep rowid order)
OfficeNameBefore(r, t) ==
  \/ StrLess(r.office, t.office)
  \/ r.office = t.office /\ StrLess(r.name, t.name)
  \/ r.office = t.office /\ r.name = t.name /\ r.id < t.id

RECURSIVE OrderByOfficeName(_)
OrderByOfficeName(rows) ==
  IF rows = <<>> THEN <<>>
  ELSE LET first == CHOOSE k \in 1..Len(rows) :
                      \A j \in 1..Len(rows) : j = k \/ OfficeNameBefore(rows[k], rows[j])
       IN <<rows[first]>> \o
          OrderByOfficeName(SubSeq(rows, 1, first - 1) \o SubSeq(rows, first + 1, Len(rows)))

\* party_mappings, in insertion order: <<party, keywords>>
party_mappings ==
  << <<"democrat", <<"democrat", "democratic", "dem", "blue">> >>,
     <<"republican", <<"republican", "gop", "red">> >>,
     <<"nonpartisan", <<"nonpartisan", "non-partisan", "independent">> >> >>

\* the result that stands for "no officials of this party"
NoRepublicansMarker == [special_message |-> "no_republicans"]

\* a party branch that returns the rows it found, also when there are none
PartyBranch_no_marker(query_lower, db) ==
  LET hits == {k \in 1..Len(party_mappings) : ContainsAny(query_lower, party_mappings[k][2])}
      InParty(r) == Like(r.party, party_mappings[MinOf(hits)][1])
  IN IF hits = {} THEN Nothing
     ELSE Just(OrderByOfficeName(AtIndices(db, {k \in 1..Len(db) : InParty(db[k])})))

\* the party branch: Nothing when no party keyword occurs in the term
PartyBranch(query_lower, db) ==
  LET hits == {k \in 1..Len(party_mappings) : ContainsAny(query_lower, party_mappings[k][2])}
  IN IF hits = {} THEN Nothing
     ELSE LET party == party_mappings[MinOf(hits)][1]
              InParty(r) == Like(r.party, party)
              results == OrderByOfficeName(AtIndices(db, {k \in 1..Len(db) : InParty(db[k])}))
          IN IF party = "republican" /\ results = <<>>
             THEN Just(<<NoRepublicansMarker>>)
             ELSE Just(results)

\* a district branch that goes on to the later branches when it finds no row
DistrictBranch_falls_through(query_lower, db) ==
  LET m == SearchDistrict(query_lower)
      InDistrict(r) == r.district_type = Just("District") /\ r.district_number = Just(m[1])
      found == AtIndices(db, {k \in 1..Len(db) : InDistrict(db[k])})
  IN IF m = <<>> \/ found = <<>> THEN Nothing ELSE Just(found)

\* the district branch: Nothing when the term holds no "district <digits>"
DistrictBranch(query_lower, db) ==
  LET m == SearchDistrict(query_lower)
      InDistrict(r) == r.district_type = Just("District") /\ r.district_number = Just(m[1])
  IN IF m = <<>> THEN Nothing ELSE Just(AtIndices(db, {k \in 1..Len(db) : InDistrict(db[k])}))

\* prioritised branches whose time-in-office and contact queries take the first
\* official of the office, whatever the name
PriorityBranch_any_holder(normalized_query, target_info, db) ==
  LET has(t) == \E k \in 1..Len(target_info) : target_info[k] = t
      Holder(r) == Like(Just(r.office), normalized_query)
      Warren(r) == Like(Just(r.office), "senator") /\ r.level = Just("Federal")
                   /\ r.name = "Elizabeth Warren"
      WarrenEducation(r) == lower(r.office) \in {"senator", "u.s. senator"}
                            /\ r.level = Just("Federal") /\ r.name = "Elizabeth Warren"
      WuMayor(r) == Like(Just(r.office), "mayor") /\ r.name = "Michelle Wu"
  IN IF (has("time_in_office") \/ has("contact")) /\ normalized_query \in {"governor", "mayor"}
     THEN Limit1(AtIndices(db, {k \in 1..Len(db) : Holder(db[k])}))
     ELSE IF has("party") /\ normalized_query = "senator"
     THEN Limit1(AtIndices(db, {k \in 1..Len(db) : Warren(db[k])}))
     ELSE IF has("education")
     THEN Limit1(AtIndices(db, {k \in 1..Len(db) : WarrenEducation(db[k])}))
     ELSE IF has("policy") /\ normalized_query = "mayor"
     THEN Limit1(AtIndices(db, {k \in 1..Len(db) : WuMayor(db[k])}))
     ELSE <<>>

\* the intent-prioritised single-holder branches: the rows of the first branch
\* whose condition holds (<<>> when none holds or it finds nothing)
PriorityBranch(normalized_query, target_info, db) ==
  LET has(t) == \E k \in 1..Len(target_info) : target_info[k] = t
      TopHolder(r) == Like(Just(r.office), normalized_query)
                      /\ r.name \in {"Maura Healey", "Michelle Wu"}
      Warren(r) == Like(Just(r.office), "senator") /\ r.level = Just("Federal")
                   /\ r.name = "Elizabeth Warren"
      WarrenEducation(r) == lower(r.office) \in {"senator", "u.s. senator"}
                            /\ r.level = Just("Federal") /\ r.name = "Elizabeth Warren"
      WuMayor(r) == Like(Just(r.office), "mayor") /\ r.name = "Michelle Wu"
  IN IF has("time_in_office") /\ normalized_query \in {"governor", "mayor"}
     THEN Limit1(AtIndices(db, {k \in 1..Len(db) : TopHolder(db[k])}))
     ELSE IF has("contact") /\ normalized_query \in {"governor", "mayor"}
     THEN Limit1(AtIndices(db, {k \in 1..Len(db) : TopHolder(db[k])}))
     ELSE IF has("party") /\ normalized_query = "senator"
     THEN Limit1(AtIndices(db, {k \in 1..Len(db) : Warren(db[k])}))
     ELSE IF has("education")
     THEN Limit1(AtIndices(db, {k \in 1..Len(db) : WarrenEducation(db[k])}))
     ELSE IF has("policy") /\ normalized_query = "mayor"
     THEN Limit1(AtIndices(db, {k \in 1..Len(db) : WuMayor(db[k])}))
     ELSE <<>>

\* the office, name and general substring branches
OfficeBranch(normalized_query, salary, db) ==
  LET Match(r) == Like(Just(r.office), normalized_query)
                  /\ (salary => r.annual_salary # Nothing)
  IN AtIndices(db, {k \in 1..Len(db) : Match(db[k])})

NameBranch(normalized_query, salary, db) ==
  LET Match(r) == Like(Just(r.name), normalized_query)
                  /\ (salary => r.annual_salary # Nothing)
  IN AtIndices(db, {k \in 1..Len(db) : Match(db[k])})

\* "name LIKE ? OR office LIKE ? OR level LIKE ? AND annual_salary IS NOT NULL":
\* AND binds tighter than OR
GeneralBranch(normalized_query, salary, db) ==
  LET Match(r) == \/ Like(Just(r.name), normalized_query)
                  \/ Like(Just(r.office), normalized_query)
                  \/ (Like(r.level, normalized_query) /\ (salary => r.annual_salary # Nothing))
  IN AtIndices(db, {k \in 1..Len(db) : Match(db[k])})

\* has the analysis the salary target
WantsSalary(intent_analysis) ==
  \E k \in 1..Len(intent_analysis.target_info) : intent_analysis.target_info[k] = "salary"

\* a search whose result joins the matches of the office, name and general branches
\* when no prioritised branch returns
FirstFound_merged(normalized_query, salary, target_info, db) ==
  IF PriorityBranch(normalized_query, target_info, db) # <<>>
  THEN PriorityBranch(normalized_query, target_info, db)
  ELSE OfficeBranch(normalized_query, salary, db)
       \o NameBranch(normalized_query, salary, db)
       \o GeneralBranch(normalized_query, salary, db)

\* the branches after the party and district branches, on the normalized term:
\* the first of them that finds a row
FirstFound(normalized_query, salary, target_info, db) ==
  IF PriorityBranch(normalized_query, target_info, db) # <<>>
  THEN PriorityBranch(normalized_query, target_info, db)
  ELSE IF OfficeBranch(normalized_query, salary, db) # <<>>
  THEN OfficeBranch(normalized_query, salary, db)
  ELSE IF NameBranch(normalized_query, salary, db) # <<>>
  THEN NameBranch(normalized_query, salary, db)
  ELSE GeneralBranch(normalized_query, salary, db)

SubstringBranches(query, intent_analysis, db) ==
  FirstFound(normalize_search_term(query), WantsSalary(intent_analysis),
             intent_analysis.target_info, db)

\* the party and district branches on the lowered term, then the others
Branches(query_lower, query, intent_analysis, db) ==
  IF PartyBranch(query_lower, db) # Nothing THEN PartyBranch(query_lower, db)[1]
  ELSE IF DistrictBranch(query_lower, db) # Nothing THEN DistrictBranch(query_lower, db)[1]
  ELSE SubstringBranches(query, intent_analysis, db)

\* search_officials(query, intent_analysis) on relation db; reachable is FALSE
\* when connecting to the store or a query raises (the except returns [])
search_officials(query, intent_analysis, db, reachable) ==
  IF ~reachable THEN <<>>
  ELSE Branches(strip(lower(query)), query, intent_analysis, db)

(***************************************************************************)
(* ResponseGenerator                                                       *)
(***************************************************************************)
\* str(n) of a natural number
RECURSIVE NatToStr(_)
NatToStr(n) ==
  IF n < 10 THEN Char(DigitChars, n + 1)
  ELSE NatToStr(n \div 10) \o Char(DigitChars, (n % 10) + 1)

\* str(n)
IntToStr(n) == IF n < 0 THEN "-" \o NatToStr(0 - n) ELSE NatToStr(n)

\* f"{n:,}" of a natural number: groups of three digits
RECURSIVE NatWithCommas(_)
NatWithCommas(n) ==
  IF n < 1000 THEN NatToStr(n)
  ELSE LET low == n % 1000
           pad == IF low < 10 THEN "00" ELSE IF low < 100 THEN "0" ELSE ""
       IN NatWithCommas(n \div 1000) \o "," \o pad \o NatToStr(low)

\* f"{n:,}"
WithCommas(n) == IF n < 0 THEN "-" \o NatWithCommas(0 - n) ELSE NatWithCommas(n)

IsLeap(y) == (y % 4 = 0 /\ y % 100 # 0) \/ y % 400 = 0

DaysInMonth(y, m) ==
  IF m = 2 THEN (IF IsLeap(y) THEN 29 ELSE 28)
  ELSE IF m \in {4, 6, 9, 11} THEN 30 ELSE 31

RECURSIVE DaysBeforeMonth(_, _)
DaysBeforeMonth(y, m) == IF m = 1 THEN 0 ELSE DaysBeforeMonth(y, m - 1) + DaysInMonth(y, m - 1)

\* date(y, m, d).toordinal()
Ordinal(y, m, d) ==
  LET p == y - 1
  IN 365 * p + (p \div 4) - (p \div 100) + (p \div 400) + DaysBeforeMonth(y, m) + d

\* the texts %m and %d accept, with their values
MonthTokens ==
  [t \in {NatToStr(k) : k \in 1..12} \cup {"0" \o NatToStr(k) : k \in 1..9} |-> DigitsValue(t)]
DayTokens ==
  [t \in {NatToStr(k) : k \in 1..31} \cup {"0" \o NatToStr(k) : k \in 1..9}
         \cup {" " \o NatToStr(k) : k \in 1..9} |-> DigitsValue(strip(t))]

\* datetime.strptime(text, '%Y-%m-%d'): Just(<<y, m, d>>), Nothing for ValueError
strptime(text) ==
  LET dashes == {i \in 6..Len(text) : Char(text, i) = "-"}
      year == SubSeq(text, 1, 4)
      month == SubSeq(text, 6, MinOf(dashes) - 1)
      day == From(text, MinOf(dashes) + 1)
  IN IF Len(text) < 8 \/ ~IsDigits(year) \/ Char(text, 5) # "-" \/ dashes = {} THEN Nothing
     ELSE IF month \notin DOMAIN MonthTokens \/ day \notin DOMAIN DayTokens THEN Nothing
     ELSE IF DigitsValue(year) < 1 \/ DayTokens[day] > DaysInMonth(DigitsValue(year), MonthTokens[month])
          THEN Nothing
     ELSE Just(<<DigitsValue(year), MonthTokens[month], DayTokens[day]>>)

\* n // d and n % d of Python (floor division) for d > 0
FloorDiv(n, d) == IF n >= 0 THEN n \div d ELSE 0 - ((0 - n + d - 1) \div d)
FloorMod(n, d) == n - d * FloorDiv(n, d)

\* "s" when n # 1
Plural(n) == IF n # 1 THEN "s" ELSE ""

DaysPerYear == 365
DaysPerMonth == 30

\* a rendering that counts the months of all the days, not of the days left
\* after the years
RenderDuration_all_months(days) ==
  LET years == FloorDiv(days, DaysPerYear)
      months == FloorDiv(days, DaysPerMonth)
  IN IF years > 0
     THEN IntToStr(years) \o " year" \o Plural(years) \o " and "
          \o IntToStr(months) \o " month" \o Plural(months)
     ELSE IF months > 0 THEN IntToStr(months) \o " month" \o Plural(months)
     ELSE IntToStr(days) \o " day" \o Plural(days)

\* the text rendered for a difference of so many whole days
RenderDuration(days) ==
  LET years == FloorDiv(days, DaysPerYear)
      months == FloorDiv(FloorMod(days, DaysPerYear), DaysPerMonth)
  IN IF years > 0
     THEN IntToStr(years) \o " year" \o Plural(years) \o " and "
          \o IntToStr(months) \o " month" \o Plural(months)
     ELSE IF months > 0 THEN IntToStr(months) \o " month" \o Plural(months)
     ELSE IntToStr(days) \o " day" \o Plural(days)

\* calculate_time_in_office(start_date_str) on the day with ordinal today; the
\* argument is a nullable cell (None raises inside the try)
calculate_time_in_office(start_date_str, today) ==
  LET start_date == IF start_date_str = Nothing THEN Nothing ELSE strptime(start_date_str[1])
  IN IF start_date = Nothing THEN "unknown duration"
     ELSE RenderDuration(today - Ordinal(start_date[1][1], start_date[1][2], start_date[1][3]))

\* truthiness of a nullable text cell and of a nullable integer cell
TruthyText(cell) == cell # Nothing /\ cell[1] # ""
TruthyInt(cell) == cell # Nothing /\ cell[1] # 0
\* cell and cell.strip()
FilledText(cell) == TruthyText(cell) /\ strip(cell[1]) # ""
\* f"{cell}"
Shown(cell) == IF cell = Nothing THEN "None" ELSE cell[1]
\* cell or 'N/A'
OrNA(cell) == IF TruthyText(cell) THEN cell[1] ELSE "N/A"

NotFoundMessage(original_query) ==
  "I couldn't find any officials matching '" \o original_query
  \o "'. Try searching by name, office, or party."

NoRepublicansMessage ==
  "**No Republican officials found in Boston government.**\n\n"
  \o "Boston city elections (Mayor, City Council) are officially **nonpartisan** - candidates don't run with party labels. However, most Boston officials are Democrats.\n\n"
  \o "At the state and federal level representing Boston, officials are predominantly Democratic."

InTargets(intent_analysis, t) ==
  \E k \in 1..Len(intent_analysis.target_info) : intent_analysis.target_info[k] = t

EducationResponse(official) ==
  IF FilledText(official.education)
  THEN "**" \o official.name \o "** graduated from **" \o official.education[1] \o "**."
  ELSE "I don't have educational background information for **" \o official.name \o "**."

CareerResponse(official) ==
  IF FilledText(official.career_before_office)
  THEN "**Before entering office, " \o official.name \o "** worked as: "
       \o official.career_before_office[1] \o "."
  ELSE "I don't have career background information for **" \o official.name \o "**."

PolicyResponse(official) ==
  IF FilledText(official.key_policy_areas)
  THEN "**" \o official.name \o "** focuses on: **" \o official.key_policy_areas[1] \o "**."
  ELSE "I don't have policy focus information for **" \o official.name \o "**."

SalaryResponse(official) ==
  IF TruthyInt(official.annual_salary)
  THEN "**" \o official.name \o "** earns **$" \o WithCommas(official.annual_salary[1])
       \o "** per year as " \o official.office \o "."
  ELSE "I don't have salary information for **" \o official.name \o "**."

TimeInOfficeResponse(official, today) ==
  IF TruthyText(official.term_start_date)
  THEN "**" \o official.name \o "** has been " \o official.office \o " since **"
       \o official.term_start_date[1] \o "** ("
       \o calculate_time_in_office(official.term_start_date, today) \o ")."
  ELSE "I don't have the start date information for **" \o official.name \o "**."

\* the pictographs that open the first four lines are written "#"
ContactResponse(official) ==
  "**Contact " \o official.name \o "**\n"
  \o "# Email: " \o OrNA(official.email) \o "\n"
  \o "# Phone: " \o OrNA(official.phone) \o "\n"
  \o "# Website: " \o OrNA(official.website) \o "\n"
  \o "# Account: " \o OrNA(official.x_account) \o "\n"
  \o "Facebook: " \o OrNA(official.facebook_page)

PartyResponse(official) ==
  IF TruthyText(official.party)
  THEN "**" \o official.name \o "** is affiliated with the **" \o official.party[1] \o "** party."
  ELSE "I don't have party affiliation information for **" \o official.name \o "**."

\* the labelled text fields of the detailed block, in order: <<field, label>>
detail_fields ==
  << <<"bio_summary", "Bio">>, <<"education", "Education">>,
     <<"career_before_office", "Prior Career">>, <<"key_policy_areas", "Policy Focus">>,
     <<"committee_memberships", "Committees">>, <<"recent_major_vote", "Recent Vote">>,
     <<"recent_initiative", "Recent Initiative">>, <<"campaign_promises", "Campaign Promises">>,
     <<"office_hours", "Office Hours">> >>

RECURSIVE DetailLines(_, _)
DetailLines(official, k) ==
  IF k > Len(detail_fields) THEN ""
  ELSE (IF FilledText(official[detail_fields[k][1]])
        THEN "**" \o detail_fields[k][2] \o "**: " \o official[detail_fields[k][1]][1] \o "\n"
        ELSE "") \o DetailLines(official, k + 1)

DetailedResponse(official, today) ==
  strip("**" \o official.name \o "** - " \o official.office \o "\n\n"
    \o DetailLines(official, 1)
    \o (IF TruthyText(official.term_start_date)
        THEN "**Time in Office**: Since " \o official.term_start_date[1] \o " ("
             \o calculate_time_in_office(official.term_start_date, today) \o ")\n"
        ELSE "")
    \o (IF TruthyText(official.next_election_date)
        THEN "**Next Election**: " \o official.next_election_date[1] \o "\n" ELSE "")
    \o (IF TruthyInt(official.annual_salary)
        THEN "**Salary**: $" \o WithCommas(official.annual_salary[1]) \o " per year\n" ELSE "")
    \o (IF TruthyInt(official.responsiveness_score)
        THEN "**Responsiveness Score**: " \o IntToStr(official.responsiveness_score[1]) \o "/100\n"
        ELSE "")
    \o (IF TruthyText(official.town_halls_per_year)
        THEN "**Town Halls**: " \o official.town_halls_per_year[1] \o " per year\n" ELSE ""))

BasicResponse(official) ==
  "**" \o official.name \o "** is the " \o official.office \o " of "
  \o (IF TruthyText(official.district_type) /\ TruthyText(official.district_number)
      THEN official.district_type[1] \o " " \o official.district_number[1]
      ELSE IF TruthyText(official.district_area) THEN official.district_area[1]
      ELSE Shown(official.level))
  \o (IF TruthyText(official.party) THEN " (" \o official.party[1] \o ")" ELSE "")
  \o "."

\* a renderer that takes the template of the target listed first
SingleResponse_first_listed(official, intent_analysis, today) ==
  IF intent_analysis.target_info = <<>>
  THEN IF intent_analysis.detail_level = "detailed" THEN DetailedResponse(official, today)
       ELSE BasicResponse(official)
  ELSE IF intent_analysis.target_info[1] = "education" THEN EducationResponse(official)
  ELSE IF intent_analysis.target_info[1] = "career" THEN CareerResponse(official)
  ELSE IF intent_analysis.target_info[1] = "policy" THEN PolicyResponse(official)
  ELSE IF intent_analysis.target_info[1] = "salary" THEN SalaryResponse(official)
  ELSE IF intent_analysis.target_info[1] = "time_in_office"
  THEN TimeInOfficeResponse(official, today)
  ELSE IF intent_analysis.target_info[1] = "contact" THEN ContactResponse(official)
  ELSE PartyResponse(official)

\* the response for a result list of exactly one official
SingleResponse(official, intent_analysis, today) ==
  IF InTargets(intent_analysis, "education") THEN EducationResponse(official)
  ELSE IF InTargets(intent_analysis, "career") THEN CareerResponse(official)
  ELSE IF InTargets(intent_analysis, "policy") THEN PolicyResponse(official)
  ELSE IF InTargets(intent_analysis, "salary") THEN SalaryResponse(official)
  ELSE IF InTargets(intent_analysis, "time_in_office") THEN TimeInOfficeResponse(official, today)
  ELSE IF InTargets(intent_analysis, "contact") THEN ContactResponse(official)
  ELSE IF InTargets(intent_analysis, "party") THEN PartyResponse(official)
  ELSE IF intent_analysis.detail_level = "detailed" THEN DetailedResponse(official, today)
  ELSE BasicResponse(official)

\* list lines without the district or area
RECURSIVE ListLines_bare(_)
ListLines_bare(officials) ==
  IF officials = <<>> THEN ""
  ELSE "- **" \o Head(officials).name \o "**, " \o Head(officials).office
       \o "\n" \o ListLines_bare(Tail(officials))

RECURSIVE ListLines(_)
ListLines(officials) ==
  IF officials = <<>> THEN ""
  ELSE LET official == Head(officials)
       IN "- **" \o official.name \o "**, " \o official.office
          \o (IF TruthyText(official.district_type) /\ TruthyText(official.district_number)
              THEN " (" \o official.district_type[1] \o " " \o official.district_number[1] \o ")"
              ELSE IF TruthyText(official.district_area)
                   THEN " (" \o official.district_area[1] \o ")"
              ELSE "")
          \o "\n" \o ListLines(Tail(officials))

\* a list of several officials without their districts and areas
MultipleResponse_bare(officials) ==
  strip("**Found multiple officials matching your query**:\n\n" \o ListLines_bare(officials))

MultipleResponse(officials) ==
  strip("**Found multiple officials matching your query**:\n\n" \o ListLines(officials))

\* generate_response(officials, intent_analysis, original_query) on the day today
generate_response(officials, intent_analysis, original_query, today) ==
  IF officials = <<>> THEN NotFoundMessage(original_query)
  ELSE IF "special_message" \in DOMAIN officials[1]
          /\ officials[1].special_message = "no_republicans"
       THEN NoRepublicansMessage
  ELSE IF Len(officials) = 1 THEN SingleResponse(officials[1], intent_analysis, today)
  ELSE MultipleResponse(officials)

(***************************************************************************)
(* The state of the service                                                *)
(***************************************************************************)
VARIABLES
  phase,      \* "down" before startup_event has succeeded, "up" while serving
  db,         \* the officials relation of officials.db, in rowid order
  boot,       \* the latest call of init_database: what it found and did
  sessions,   \* conversation_engine.sessions: session id -> session state
  added,      \* per session id, the exchanges ever passed to add_exchange
  reqs,       \* the requests received by search(), in order of arrival
  clock,      \* the time, in ticks; add_exchange stamps exchanges with it
  today,      \* the ordinal of the current day (datetime.now())
  arg,        \* the input of the function under study
  out         \* the results it returned, in order

vars == <<phase, db, boot, sessions, added, reqs, clock, today, arg, out>>

\* the day the model runs on: date(2026, 11, 3)
Today == Ordinal(2026, 11, 3)

\* a header with every column of the relation
FullHeader == ColumnSet

\* a complete csv row from a record of some of its cells; the others are ''
CsvRow(cells) == [c \in ColumnSet |-> IF c \in DOMAIN cells THEN Just(cells[c]) ELSE Just("")]

WuRow ==
  CsvRow([name |-> "Michelle Wu", office |-> "Mayor", district_area |-> "Boston",
          level |-> "City", party |-> "Nonpartisan", term_start_date |-> "2021-11-16",
          annual_salary |-> "207000", key_policy_areas |-> "Housing, Climate",
          education |-> "Harvard University", email |-> "mayor@boston.gov"])
HealeyRow ==
  CsvRow([name |-> "Maura Healey", office |-> "Governor", level |-> "State",
          party |-> "Democratic", term_start_date |-> "2023-01-05", annual_salary |-> "222185"])
WarrenRow ==
  CsvRow([name |-> "Elizabeth Warren", office |-> "U.S. Senator", level |-> "Federal",
          party |-> "Democratic", term_start_date |-> "2013-01-03", annual_salary |-> "174000",
          education |-> "Rutgers Law School"])
MarkeyRow ==
  CsvRow([name |-> "Ed Markey", office |-> "U.S. Senator", level |-> "Federal",
          party |-> "Democratic"])
FlynnRow ==
  CsvRow([name |-> "Ed Flynn", office |-> "City Councilor", district_type |-> "District",
          district_number |-> "2", level |-> "City", party |-> "Nonpartisan",
          annual_salary |-> "103500"])
CollinsRow ==
  CsvRow([name |-> "Nick Collins", office |-> "State Senator", district_type |-> "District",
          district_number |-> "1", level |-> "State", party |-> "Democratic"])

\* officials.csv as deployed, and a deployment without the file
OfficialsCsv ==
  [exists |-> TRUE, header |-> FullHeader,
   rows |-> <<WuRow, HealeyRow, WarrenRow, MarkeyRow, FlynnRow, CollinsRow>>]
MissingCsv == [exists |-> FALSE, header |-> {}, rows |-> <<>>]

\* the state after the module is loaded, with no officials.db yet
Idle ==
  /\ phase = "down"
  /\ db = <<>>
  /\ boot = <<>>
  /\ sessions = <<>>
  /\ added = <<>>
  /\ reqs = <<>>
  /\ clock = 0
  /\ today = Today
  /\ arg = <<>>
  /\ out = <<>>

(***************************************************************************)
(* startup_event and the search endpoint                                   *)
(***************************************************************************)
\* bound: the requests one run receives
MaxRequests == 2

Queries == {"who is the mayor", "what does she focus on"}
SessionIds == {"default", "s2"}
Sources == {OfficialsCsv, MissingCsv}

\* the service after init_database returned r = [db, ok]: it comes up only
\* when init_database did not raise
Booted(r) ==
  /\ db' = r.db
  /\ phase' = IF r.ok THEN "up" ELSE "down"

\* the log of the exchanges ever passed to add_exchange, per session id ever
\* referred to: the log with the session known, and with one more exchange
Known(log, session_id) ==
  IF session_id \in DOMAIN log THEN log ELSE log @@ (session_id :> <<>>)

Logged(log, session_id, exchange) ==
  [Known(log, session_id) EXCEPT ![session_id] = Append(@, exchange)]

\* startup_event: init_database on the csv file found
Startup(csv, reachable) ==
  /\ phase = "down"
  /\ Booted(init_database(db, csv, reachable))
  /\ UNCHANGED <<boot, sessions, added, reqs, clock, today, arg, out>>

\* the request search() holds while it awaits search_officials
Pending(query, session_id, enhanced_query) ==
  [pc |-> "awaiting_store", query |-> query, session_id |-> session_id,
   enhanced_query |-> enhanced_query,
   intent_analysis |-> analyze_query_intent(enhanced_query),
   search_term |-> extract_search_terms(enhanced_query),
   reachable |-> TRUE, officials |-> <<>>, response |-> "", status |-> "pending"]

\* search() on the session table after get_session
Received(query, session_id, table) ==
  /\ sessions' = table
  /\ reqs' = Append(reqs, Pending(query, session_id,
                                  enhance_query_with_context(query, table[session_id])))

\* search(), up to the await of search_officials: the session is looked up
\* (and created), the query enhanced, analysed and reduced to a search term
Receive(query, session_id) ==
  /\ phase = "up"
  /\ Len(reqs) < MaxRequests
  /\ Received(query, session_id, get_session(sessions, session_id))
  /\ added' = Known(added, session_id)
  /\ UNCHANGED <<phase, db, boot, clock, today, arg, out>>

\* a response rendered for the enhanced query instead of the caller's
Rendered_enhanced(r, officials) ==
  generate_response(officials, r.intent_analysis, r.enhanced_query, today)

\* the response search() builds from the result of search_officials
Rendered(r, officials) == generate_response(officials, r.intent_analysis, r.query, today)

\* a completion that records the enhanced query instead of the caller's
Answered_records_enhanced(k, r, reachable, officials, response) ==
  /\ sessions' = add_exchange(sessions, r.session_id, r.enhanced_query, response, clock + 1)
  /\ reqs' = [reqs EXCEPT ![k] = [r EXCEPT !.pc = "done", !.reachable = reachable,
                                            !.officials = officials,
                                            !.response = response, !.status = "ok"]]
  /\ added' = Logged(added, r.session_id, Exchange(r.enhanced_query, response, clock + 1))

\* search() once the response is rendered: the exchange is recorded and the
\* response returned with status ok
Answered(k, r, reachable, officials, response) ==
  /\ sessions' = add_exchange(sessions, r.session_id, r.query, response, clock + 1)
  /\ reqs' = [reqs EXCEPT ![k] = [r EXCEPT !.pc = "done", !.reachable = reachable,
                                            !.officials = officials,
                                            !.response = response, !.status = "ok"]]
  /\ added' = Logged(added, r.session_id, Exchange(r.query, response, clock + 1))

\* search() once search_officials returned
Found(k, r, reachable, officials) == Answered(k, r, reachable, officials, Rendered(r, officials))

\* search(), from the return of search_officials: the response is rendered,
\* the exchange recorded and the response returned; reachable tells whether
\* the store could be read
Respond(k, reachable) ==
  /\ k \in 1..Len(reqs)
  /\ reqs[k].pc = "awaiting_store"
  /\ Found(k, reqs[k], reachable,
           search_officials(reqs[k].search_term, reqs[k].intent_analysis, db, reachable))
  /\ clock' = clock + 1
  /\ UNCHANGED <<phase, db, boot, today, arg, out>>

Init == Idle

Next ==
  \/ \E csv \in Sources, reachable \in BOOLEAN : Startup(csv, reachable)
  \/ \E query \in Queries, session_id \in SessionIds : Receive(query, session_id)
  \/ \E k \in 1..MaxRequests, reachable \in BOOLEAN : Respond(k, reachable)

Spec == Init /\ [][Next]_vars
\* C2: when the store cannot be accessed or a query against it fails during
\* search, the answer signals a failure the caller can tell from the normal
\* "no results found" response, and does not return the "couldn't find" payload
C2_StoreFailureSignalled ==
  \A k \in 1..Len(reqs) :
     (reqs[k].pc = "done" /\ ~reqs[k].reachable)
       => /\ reqs[k].status = "error"
          /\ reqs[k].response # NotFoundMessage(reqs[k].query)

\* C3: when the search yields an empty list the answer is a normal response,
\* the not-found message, and it holds the caller's original query verbatim,
\* not the context-enhanced query
C3_NotFoundQuotesOriginalQuery ==
  \A k \in 1..Len(reqs) :
     (reqs[k].pc = "done" /\ reqs[k].officials = <<>>)
       => /\ reqs[k].status = "ok"
          /\ reqs[k].response =
               "I couldn't find any officials matching '" \o reqs[k].query
                 \o "'. Try searching by name, office, or party."
          /\ Contains(reqs[k].response, reqs[k].query)
          /\ (reqs[k].enhanced_query # reqs[k].query
                => ~Contains(reqs[k].response, reqs[k].enhanced_query))

\* C3 happens: a search on a readable store found nothing for a query that
\* enhancement had changed
C3_Witness ==
  \E k \in 1..Len(reqs) :
     /\ reqs[k].pc = "done"
     /\ reqs[k].reachable
     /\ reqs[k].officials = <<>>
     /\ reqs[k].enhanced_query # reqs[k].query

(***************************************************************************)
(* The session table on its own: get_session and add_exchange called in    *)
(* any order on two sessions                                               *)
(***************************************************************************)
\* bounds: the exchanges added to the session "default" and to the other one
MaxAdds == 22
MaxOtherAdds == 2

AddBound(session_id) == IF session_id = "default" THEN MaxAdds ELSE MaxOtherAdds

ExchangeQuery == "who is the mayor"
ExchangeResponse == "Michelle Wu is the Mayor."

\* conversation_engine.get_session(session_id)
Refer(session_id) ==
  /\ sessions' = get_session(sessions, session_id)
  /\ added' = Known(added, session_id)
  /\ UNCHANGED <<phase, db, boot, reqs, clock, today, arg, out>>

\* conversation_engine.add_exchange(session_id, query, response) at time clock + 1
AddExchange(session_id, query, response) ==
  /\ Len(Known(added, session_id)[session_id]) < AddBound(session_id)
  /\ sessions' = add_exchange(sessions, session_id, query, response, clock + 1)
  /\ added' = Logged(added, session_id, Exchange(query, response, clock + 1))
  /\ clock' = clock + 1
  /\ UNCHANGED <<phase, db, boot, reqs, today, arg, out>>

NextHist ==
  \/ \E session_id \in SessionIds : Refer(session_id)
  \/ \E session_id \in SessionIds : AddExchange(session_id, ExchangeQuery, ExchangeResponse)

SpecHist == Init /\ [][NextHist]_vars

\* C1: for every session, after any sequence of add_exchange calls on that
\* session or any other, the history of the session holds at most 20 exchanges
C1_HistoryAtMost20 ==
  \A session_id \in DOMAIN sessions : Len(sessions[session_id].history) <= 20

\* C1 happens: more than 20 exchanges were added to a session, whose history
\* holds 20, and exchanges were added to another session as well
C1_Witness ==
  \E session_id \in DOMAIN sessions, other \in DOMAIN sessions :
     /\ other # session_id
     /\ Len(added[session_id]) > 20
     /\ Len(sessions[session_id].history) = 20
     /\ Len(added[other]) > 0
(***************************************************************************)
(* search_officials and the rendering of its result on their own: one      *)
(* search on a store of up to MaxStoreRows officials                       *)
(***************************************************************************)
BakerRow ==
  CsvRow([name |-> "Charlie Baker", office |-> "Former Governor", level |-> "State",
          party |-> "Republican"])
\* an official whose office reads like a district search term
LiaisonRow ==
  CsvRow([name |-> "Pat Doe", office |-> "District 9 Liaison", district_type |-> "Ward",
          district_number |-> "9", level |-> "City", party |-> "Independent"])

\* an official without a salary whose office names the mayor
AideRow ==
  CsvRow([name |-> "Dana Park", office |-> "Aide to Mayor Wu", level |-> "City",
          party |-> "Nonpartisan"])

\* bound: the officials of a store
MaxStoreRows == 2

StorePool == {WuRow, WarrenRow, FlynnRow, BakerRow, LiaisonRow, AideRow}

\* the csv files of at most MaxStoreRows different rows of the pool
StoreFiles ==
  {rows \in UNION {[1..n -> StorePool] : n \in 0..MaxStoreRows} :
     \A i, j \in 1..Len(rows) : i # j => rows[i] # rows[j]}

\* the relations init_database makes of them
Stores ==
  {init_database(<<>>, [exists |-> TRUE, header |-> FullHeader, rows |-> rows], TRUE).db :
     rows \in StoreFiles}

SearchTerms ==
  {"republican", "GOP", "red", "blue or red", "democrats and republicans",
   "District  2", "district 9", "district 5 gop", "mayor", "Wu", "state", "senator",
   "governor", "Michelle Wu"}
TargetChoices ==
  {<<>>, <<"salary">>, <<"party">>, <<"policy">>, <<"time_in_office">>, <<"contact">>,
   <<"education">>}

\* an intent analysis with the given target_info
Intent(target_info) ==
  [intent_type |-> "general_search", detail_level |-> "basic",
   target_info |-> target_info, search_entities |-> <<>>]

InitSearch ==
  /\ phase = "up"
  /\ db \in Stores
  /\ boot = <<>>
  /\ sessions = <<>>
  /\ added = <<>>
  /\ reqs = <<>>
  /\ clock = 0
  /\ today = Today
  /\ arg = <<>>
  /\ out = <<>>

\* what search() makes of the officials found for a term
Looked(term, intent_analysis, officials) ==
  [officials |-> officials,
   response |-> generate_response(officials, intent_analysis, term, today)]

\* search_officials(term, intent_analysis) followed by generate_response
Lookup(term, target_info, reachable) ==
  /\ arg = <<>>
  /\ arg' = [term |-> term, target_info |-> target_info, reachable |-> reachable]
  /\ out' = Looked(term, Intent(target_info),
                   search_officials(term, Intent(target_info), db, reachable))
  /\ UNCHANGED <<phase, db, boot, sessions, added, reqs, clock, today>>

NextSearch ==
  \E term \in SearchTerms, target_info \in TargetChoices, reachable \in BOOLEAN :
     Lookup(term, target_info, reachable)

SpecSearch == InitSearch /\ [][NextSearch]_vars

\* a search on a readable store has returned
Searched == arg # <<>> /\ arg.reachable

\* the term of the search holds a keyword of the republican group
HasRepublicanKeyword ==
  \E w \in {"republican", "gop", "red"} : Contains(strip(lower(arg.term)), w)

\* the term of the search holds a keyword of the democrat group
HasDemocratKeyword ==
  \E w \in {"democrat", "democratic", "dem", "blue"} : Contains(strip(lower(arg.term)), w)

\* the term of the search holds a keyword of the nonpartisan group
HasNonpartisanKeyword ==
  \E w \in {"nonpartisan", "non-partisan", "independent"} : Contains(strip(lower(arg.term)), w)

\* no official of the store has a party that contains "republican"
NoRepublicanOfficial ==
  \A k \in 1..Len(db) : db[k].party = Nothing \/ ~Contains(lower(db[k].party[1]), "republican")

\* the result is the one marker and it is rendered as the fixed paragraph
MarkerReturned ==
  /\ out.officials = <<[special_message |-> "no_republicans"]>>
  /\ OccursAt(out.response, "**No Republican officials found in Boston government.**", 1)
  /\ out.response = NoRepublicansMessage

\* C4 as stated: a search whose term matches the republican keyword group, on
\* a store without officials whose party contains "republican", returns the
\* one special marker, rendered as the fixed paragraph
C4_RepublicanTermGivesMarker ==
  (Searched /\ HasRepublicanKeyword /\ NoRepublicanOfficial) => MarkerReturned

\* C4 amended: the same for a term that matches the republican keyword group
\* and holds no keyword of the democrat group, which is tried first
C4_RepublicanOnlyTermGivesMarker ==
  (Searched /\ HasRepublicanKeyword /\ ~HasDemocratKeyword /\ NoRepublicanOfficial)
    => MarkerReturned

\* C4 happens: such a search on a store that holds officials of other parties
C4_Witness ==
  /\ Searched /\ HasRepublicanKeyword /\ ~HasDemocratKeyword /\ NoRepublicanOfficial
  /\ Len(db) > 0
  /\ MarkerReturned

\* the digits of the first "district <digits>" of the term: <<digits>>, or
\* <<>> when the term holds none
DistrictDigits == SearchDistrict(strip(lower(arg.term)))

\* official r has district type "District" and the number searched for
InSearchedDistrict(r) ==
  r.district_type = <<"District">> /\ r.district_number = DistrictDigits

\* a search for "district <digits>" without a party keyword on a readable store
DistrictSearched ==
  /\ Searched
  /\ DistrictDigits # <<>>
  /\ ~(HasDemocratKeyword \/ HasRepublicanKeyword \/ HasNonpartisanKeyword)

\* C5: a search whose term matches "district <digits>" and no party keyword
\* returns exactly the officials of district type "District" whose district
\* number is the digits, each once; it returns the empty list when there is
\* none, whatever the office, name and general branches would have found
C5_DistrictSearchReturnsDistrictOnly ==
  DistrictSearched =>
    /\ \A i \in 1..Len(out.officials) :
          /\ \E k \in 1..Len(db) : db[k] = out.officials[i]
          /\ InSearchedDistrict(out.officials[i])
    /\ \A k \in 1..Len(db) :
          InSearchedDistrict(db[k]) => \E i \in 1..Len(out.officials) : out.officials[i] = db[k]
    /\ \A i, j \in 1..Len(out.officials) : i # j => out.officials[i] # out.officials[j]
    /\ ((\A k \in 1..Len(db) : ~InSearchedDistrict(db[k])) => out.officials = <<>>)

\* C5 happens: a district search finds no official of the district although
\* the office of an official contains the term, and returns the empty list
C5_Witness ==
  /\ DistrictSearched
  /\ \A k \in 1..Len(db) : ~InSearchedDistrict(db[k])
  /\ \E k \in 1..Len(db) : Contains(lower(db[k].office), strip(lower(arg.term)))
  /\ out.officials = <<>>

(***************************************************************************)
(* Query enhancement on its own: a conversation of up to MaxHistLen        *)
(* exchanges on one session, then one query enhanced against it            *)
(***************************************************************************)
\* bound: the exchanges of the conversation
MaxHistLen == 4

\* exchanges as search() records them: a query and the response rendered
Talk ==
  << [query |-> "who is the mayor",
      response |-> "**Michelle Wu** is the Mayor of Boston (Nonpartisan)."],
     [query |-> "democrats",
      response |-> "**Found multiple officials matching your query**:\n\n- **Maura Healey**, Governor\n- **Elizabeth Warren**, U.S. Senator"],
     [query |-> "who is ed markey",
      response |-> "**Ed Markey** is the U.S. Senator of Federal (Democratic)."],
     [query |-> "who is the governor",
      response |-> "**Maura Healey** is the Governor of Massachusetts (Democratic)."],
     [query |-> "asdf",
      response |-> "I couldn't find any officials matching 'asdf'. Try searching by name, office, or party."] >>

EnhanceQueries ==
  {"what does she focus on", "What is HER salary", "she said her plan is hers",
   "how much does she earn", "how long has she been governor", "tell her what he said",
   "where is the sheriff", "tell him where he left His hat",
   "salary per term"}

\* conversation_engine.add_exchange at the end of an earlier request
Converse(query, response) ==
  /\ arg = <<>>
  /\ Len(get_session(sessions, "default")["default"].history) < MaxHistLen
  /\ sessions' = add_exchange(sessions, "default", query, response, clock + 1)
  /\ clock' = clock + 1
  /\ UNCHANGED <<phase, db, boot, added, reqs, today, arg, out>>

\* what search() computes from the query and the session before it searches
Enhanced(query, session) ==
  [resolved |-> resolve_pronouns(query, session),
   enhanced |-> enhance_query_with_context(query, session)]

\* the first two statements of search()
Enhance(query) ==
  /\ arg = <<>>
  /\ sessions' = get_session(sessions, "default")
  /\ arg' = [query |-> query]
  /\ out' = Enhanced(query, get_session(sessions, "default")["default"])
  /\ UNCHANGED <<phase, db, boot, added, reqs, clock, today>>

NextEnhance ==
  \/ \E k \in 1..Len(Talk) : Converse(Talk[k].query, Talk[k].response)
  \/ \E query \in EnhanceQueries : Enhance(query)

SpecEnhance == Init /\ [][NextEnhance]_vars

\* the end of the token of s that starts at i: a maximal run of word
\* characters, or one other character
TokenEnd(s, i) ==
  IF ~IsWordCh(Char(s, i)) THEN i
  ELSE IF \A j \in i..Len(s) : IsWordCh(Char(s, j)) THEN Len(s)
  ELSE MinOf({j \in i..Len(s) : ~IsWordCh(Char(s, j))}) - 1

\* s from position i with every token that is one of the words, whatever its
\* case, replaced by name
RECURSIVE ReplaceTokensFrom(_, _, _, _)
ReplaceTokensFrom(s, i, words, name) ==
  IF i > Len(s) THEN ""
  ELSE (IF lower(SubSeq(s, i, TokenEnd(s, i))) \in words
        THEN name ELSE SubSeq(s, i, TokenEnd(s, i)))
       \o ReplaceTokensFrom(s, TokenEnd(s, i) + 1, words, name)

ReplaceTokens(s, words, name) == ReplaceTokensFrom(s, 1, words, name)

\* the tokens of s from position i, lowered
RECURSIVE TokensFrom(_, _)
TokensFrom(s, i) ==
  IF i > Len(s) THEN {}
  ELSE {lower(SubSeq(s, i, TokenEnd(s, i)))} \cup TokensFrom(s, TokenEnd(s, i) + 1)

FemininePronouns == {"she", "her", "hers"}
MasculinePronouns == {"he", "him", "his"}
FemaleAllowList ==
  {"Michelle Wu", "Elizabeth Warren", "Ayanna Pressley", "Maura Healey", "Andrea Campbell",
   "Kim Driscoll"}
MaleAllowList == {"Ed Markey", "Stephen Lynch", "Ed Flynn", "Nick Collins"}

\* the history the query was enhanced against
HistoryBefore == sessions["default"].history

\* the mentions <<exchange, position>> of a name of the list in the people
\* entities of the last n exchanges
Mentions(list, n) ==
  {m \in (1..Len(HistoryBefore)) \X (1..60) :
     /\ m[1] > Len(HistoryBefore) - n
     /\ m[2] <= Len(HistoryBefore[m[1]].entities.people)
     /\ HistoryBefore[m[1]].entities.people[m[2]] \in list}

\* the latest of a non-empty set of mentions
Latest(mentions) ==
  CHOOSE m \in mentions :
    \A o \in mentions : o[1] < m[1] \/ (o[1] = m[1] /\ o[2] <= m[2])

\* the name most recently mentioned among the mentions
LatestName(mentions) ==
  HistoryBefore[Latest(mentions)[1]].entities.people[Latest(mentions)[2]]

\* the query with its feminine pronouns replaced by the most recent female
\* name, and then its masculine pronouns by the most recent male name if any
ExpectedResolved ==
  IF Mentions(MaleAllowList, 3) = {}
  THEN ReplaceTokens(arg.query, FemininePronouns, LatestName(Mentions(FemaleAllowList, 3)))
  ELSE ReplaceTokens(
         ReplaceTokens(arg.query, FemininePronouns, LatestName(Mentions(FemaleAllowList, 3))),
         MasculinePronouns, LatestName(Mentions(MaleAllowList, 3)))

\* a query with a whole-word feminine pronoun was enhanced against a history
\* whose last 3 exchanges mention a name of the female allow-list
FeminineResolved ==
  /\ arg # <<>>
  /\ TokensFrom(arg.query, 1) \cap FemininePronouns # {}
  /\ Mentions(FemaleAllowList, 3) # {}

\* s ends with t
EndsWith(s, t) == Len(t) <= Len(s) /\ SubSeq(s, Len(s) - Len(t) + 1, Len(s)) = t

\* C6: if the query holds a whole-word feminine pronoun and the people of the
\* last 3 exchanges hold a name of the female allow-list, enhancement replaces
\* every occurrence of the pronoun by the most recently mentioned such name
\* (the rest of the query stays, up to the masculine pronouns, a prepended
\* subject and the governor substitution); with only Michelle Wu in the
\* history, "what does she focus on" becomes "what does Michelle Wu focus on"
C6_FemininePronounResolved ==
  FeminineResolved =>
    /\ out.resolved = ExpectedResolved
    /\ \/ EndsWith(out.enhanced, out.resolved)
       \/ out.enhanced = ReplaceTokens(out.resolved, {"governor"}, "Maura Healey")
    /\ TokensFrom(out.enhanced, 1) \cap FemininePronouns = {}
    /\ ((arg.query = "what does she focus on"
          /\ \A i \in 1..Len(HistoryBefore) :
                \A j \in 1..Len(HistoryBefore[i].entities.people) :
                   HistoryBefore[i].entities.people[j] = "Michelle Wu")
         => out.enhanced = "what does Michelle Wu focus on")

\* C6 happens: several feminine pronouns are resolved against a history in
\* which two names of the allow-list were mentioned, the latest not being the
\* default name
C6_Witness ==
  /\ FeminineResolved
  /\ arg.query = "she said her plan is hers"
  /\ Cardinality({HistoryBefore[m[1]].entities.people[m[2]] :
                    m \in Mentions(FemaleAllowList, 3)}) >= 2
  /\ LatestName(Mentions(FemaleAllowList, 3)) = "Elizabeth Warren"
  /\ out.enhanced = "Elizabeth Warren said Elizabeth Warren plan is Elizabeth Warren"

(***************************************************************************)
(* extract_search_terms on its own: one query, one extraction              *)
(***************************************************************************)
QueryOpenings ==
  {"", "who is ", "what does ", "where did ", "what did ", "how much does ", "tell me about "}
QuerySubjects ==
  {"the mayor", "Michelle Wu", "michelle wu", "district 5", "the Governor", "ed flynns",
   "councillor of District  12", "michelle wu's", "james"}
QueryEndings == {"", " make", "'s education", " focus on", "?"}

ExtractQueries ==
  {a \o b \o c : a \in QueryOpenings, b \in QuerySubjects, c \in QueryEndings}
    \cup {"Who is the mayor?", "how much does the mayor make", "Michelle Wu's education",
          "Is Michelle Wu the mayor", "Senator Warren of district 3"}

\* the question patterns of the patterns list (all but the possessive one):
\* the capitalised group of the first that matches
QuestionRule(query_lower) ==
  IF \E k \in 1..4 : SearchGroup(query_lower, k) # Nothing
  THEN Just(CapitalizeWords(
         SearchGroup(query_lower,
                     MinOf({k \in 1..4 : SearchGroup(query_lower, k) # Nothing}))[1]))
  ELSE Nothing

\* the possessive pattern, the last of the patterns list
PossessiveRule(query_lower) ==
  IF SearchGroup(query_lower, 5) # Nothing
  THEN Just(CapitalizeWords(SearchGroup(query_lower, 5)[1]))
  ELSE Nothing

\* what each rule of extract_search_terms gives on the query, in the order of
\* the code; the fallback always gives something
Rules(query, query_lower, original_query) ==
  << OfficeRule(query_lower), NameRule(original_query), QuestionRule(query_lower),
     PossessiveRule(query_lower), DistrictRule(query_lower),
     Just(FallbackRule(query, query_lower)) >>

\* extract_search_terms(query), with what its rules give
Extract(query) ==
  /\ arg = <<>>
  /\ arg' = [query |-> query]
  /\ out' = [term |-> extract_search_terms(query),
             rules |-> Rules(query, strip(lower(query)), strip(query))]
  /\ UNCHANGED <<phase, db, boot, sessions, added, reqs, clock, today>>

NextExtract == \E query \in ExtractQueries : Extract(query)

SpecExtract == Init /\ [][NextExtract]_vars

\* the office keywords with the word returned for each, in the fixed order
OfficeWords ==
  << <<"mayor", "mayor">>, <<"governor", "governor">>, <<"senator", "senator">>,
     <<"representative", "representative">>, <<"councilor", "councilor">>,
     <<"councillor", "councilor">> >>

\* the office keywords that occur in the lowered query
OfficeHits == {k \in 1..Len(OfficeWords) : Contains(lower(arg.query), OfficeWords[k][1])}

\* the rules that match the query
Matching == {k \in 1..6 : out.rules[k] # Nothing}

\* C7: extract_search_terms returns what the first matching rule gives, in the
\* order office keyword, Title-Case name, did/what-does patterns, possessive
\* pattern, district, fallback; a query with an office keyword gives the
\* canonical office word; "Who is the mayor?" and "how much does the mayor
\* make" give "mayor" and "Michelle Wu's education" gives "Michelle Wu"
C7_FirstMatchingRuleWins ==
  arg # <<>> =>
    /\ out.term = out.rules[MinOf(Matching)][1]
    /\ OfficeHits # {} => (1 \in Matching /\ out.term = OfficeWords[MinOf(OfficeHits)][2])
    /\ arg.query \in {"Who is the mayor?", "how much does the mayor make"} => out.term = "mayor"
    /\ arg.query = "Michelle Wu's education" => out.term = "Michelle Wu"

\* C7 happens: a query that an earlier and several later rules match (office
\* keyword, Title-Case name, district, fallback) gives the office word
C7_Witness ==
  /\ arg # <<>>
  /\ arg.query = "Senator Warren of district 3"
  /\ Matching = {1, 2, 5, 6}
  /\ out.rules[2] = <<"Senator Warren">>
  /\ out.rules[5] = <<"district 3">>
  /\ out.term = "senator"

(***************************************************************************)
(* normalize_search_term on its own: a term is normalized, and the result  *)
(* is normalized again                                                     *)
(***************************************************************************)
\* every variation of the two tables (the standard names are among them),
\* and other terms
NormalizeTerms ==
  UNION {{NEIGHBORHOOD_VARIATIONS[k][2][v] : v \in 1..Len(NEIGHBORHOOD_VARIATIONS[k][2])} :
           k \in 1..Len(NEIGHBORHOOD_VARIATIONS)}
  \cup UNION {{OFFICE_VARIATIONS[k][2][v] : v \in 1..Len(OFFICE_VARIATIONS[k][2])} :
               k \in 1..Len(OFFICE_VARIATIONS)}
  \cup {"Mayor", " MAYOR ", "North End", "senater", "Wu", "Michelle Wu", "district 5",
        "governor", "", "dorchestr", "city council", "south boston", "west end",
        "councillor", "state", "jamaica", " Hyde Park", "rosindale", "state reps"}

\* normalize_search_term(term)
Normalize(term) ==
  /\ arg = <<>>
  /\ arg' = [term |-> term]
  /\ out' = <<normalize_search_term(term)>>
  /\ UNCHANGED <<phase, db, boot, sessions, added, reqs, clock, today>>

\* normalize_search_term applied to its own result
Renormalize ==
  /\ arg # <<>>
  /\ Len(out) = 1
  /\ out' = Append(out, normalize_search_term(out[1]))
  /\ UNCHANGED <<phase, db, boot, sessions, added, reqs, clock, today, arg>>

NextNormalize ==
  \/ \E term \in NormalizeTerms : Normalize(term)
  \/ Renormalize

SpecNormalize == Init /\ [][NextNormalize]_vars

\* the canonical labels of the neighborhood and office tables, in table order
CanonicalLabels ==
  <<"roslindale", "jamaica plain", "south end", "back bay", "charlestown", "east boston",
    "north end", "allston", "brighton", "roxbury", "dorchester", "west roxbury",
    "hyde park", "mission hill", "mayor", "city councilor", "state senator",
    "state representative">>

\* the variations of the k-th entry of the two tables taken as one
VariationsOf(k) ==
  IF k <= Len(NEIGHBORHOOD_VARIATIONS) THEN NEIGHBORHOOD_VARIATIONS[k][2]
  ELSE OFFICE_VARIATIONS[k - Len(NEIGHBORHOOD_VARIATIONS)][2]

\* no variation of an entry before the k-th reaches similarity 0.8 with the
\* k-th canonical label
EarlierEntriesFar(k) ==
  \A e \in 1..(k - 1) : \A v \in 1..Len(VariationsOf(e)) :
     ~RatioAtLeast(CanonicalLabels[k], VariationsOf(e)[v], 8)

\* C8: normalize_search_term is idempotent: a canonical label of the tables
\* normalizes to itself (no variation of an earlier entry reaches similarity
\* 0.8 with it), and normalizing the result of a normalization changes nothing
C8_NormalizeIdempotent ==
  arg # <<>> =>
    /\ \A k \in 1..Len(CanonicalLabels) :
         arg.term = CanonicalLabels[k] => (out[1] = arg.term /\ EarlierEntriesFar(k))
    /\ Len(out) = 2 => out[2] = out[1]

\* C8 happens: a misspelt term was normalized to the label of a later entry
\* and the label was normalized again
C8_Witness ==
  /\ arg # <<>>
  /\ arg.term = "senater"
  /\ out = <<"state senator", "state senator">>

(***************************************************************************)
(* init_database on its own: the process is started again and again, on    *)
(* the relation the earlier runs left and whatever officials.csv is there  *)
(***************************************************************************)
\* bounds: the process starts, and the rows of a generated officials.csv
MaxBoots == 3
MaxCsvRows == 2

\* a line with a name and nothing else, and a line cut after name and office
\* (csv.DictReader gives None for the cells a short line lacks)
NameOnlyRow == [c \in ColumnSet |-> IF c = "name" THEN Just("Jane Doe") ELSE Nothing]
CutRow ==
  [c \in ColumnSet |->
     IF c = "name" THEN Just("John Roe") ELSE IF c = "office" THEN Just("Sheriff") ELSE Nothing]

CsvRowPool == {WuRow, HealeyRow, NameOnlyRow, CutRow}

\* files without the office column and without the party column
NoOfficeCsv == [exists |-> TRUE, header |-> ColumnSet \ {"office"}, rows |-> <<WuRow>>]
NoPartyCsv ==
  [exists |-> TRUE, header |-> ColumnSet \ {"party"}, rows |-> <<WuRow, HealeyRow>>]

ImportSources ==
  {[exists |-> TRUE, header |-> FullHeader, rows |-> rows] :
     rows \in UNION {[1..n -> CsvRowPool] : n \in 0..MaxCsvRows}}
  \cup {NoOfficeCsv, NoPartyCsv, MissingCsv}

\* what a call of init_database found and whether it returned
BootEntry(found, csv, reachable, r) ==
  [found |-> found, csv |-> csv, reachable |-> reachable, ok |-> r.ok]

\* a process start: startup_event runs init_database on the relation the
\* earlier processes left
Reboot(csv, reachable) ==
  /\ clock < MaxBoots
  /\ Booted(init_database(db, csv, reachable))
  /\ boot' = <<BootEntry(db, csv, reachable, init_database(db, csv, reachable))>>
  /\ clock' = clock + 1
  /\ UNCHANGED <<sessions, added, reqs, today, arg, out>>

NextImport == \E csv \in ImportSources, reachable \in BOOLEAN : Reboot(csv, reachable)

SpecImport == Init /\ [][NextImport]_vars

\* the latest run found an empty relation, a store it could open and a file
ImportRan == boot # <<>> /\ boot[1].found = <<>> /\ boot[1].reachable /\ boot[1].csv.exists

\* every row of the file of the latest run has a name and an office
RowsComplete ==
  /\ {"name", "office"} \subseteq boot[1].csv.header
  /\ \A k \in 1..Len(boot[1].csv.rows) :
       boot[1].csv.rows[k]["name"] # <<>> /\ boot[1].csv.rows[k]["office"] # <<>>

\* the latest run found a relation with records
ImportRepeated == boot # <<>> /\ boot[1].found # <<>>

\* C9 as stated: the import on an empty relation with a source of N rows
\* leaves exactly N records, and a run on a non-empty relation changes nothing
C9_ImportLeavesNRecords ==
  /\ ImportRan => Len(db) = Len(boot[1].csv.rows)
  /\ ImportRepeated => db = boot[1].found

\* C9, amended: the import on an empty relation with a source of N rows that
\* all have a name and an office leaves exactly N records, one per row in row
\* order; with a row that lacks one of them the import fails and leaves the
\* relation empty; a run on a non-empty relation changes nothing
C9_CompleteRowsImported ==
  /\ (ImportRan /\ RowsComplete) =>
       /\ boot[1].ok
       /\ Len(db) = Len(boot[1].csv.rows)
       /\ \A k \in 1..Len(db) :
            /\ db[k].name = boot[1].csv.rows[k]["name"][1]
            /\ db[k].office = boot[1].csv.rows[k]["office"][1]
  /\ (ImportRan /\ ~RowsComplete) => (~boot[1].ok /\ db = <<>>)
  /\ ImportRepeated => db = boot[1].found

\* C9 happens: the third run finds the two records an earlier run imported,
\* and a readable file with other rows, and leaves the two records
C9_Witness ==
  /\ ImportRepeated
  /\ clock = 3
  /\ boot[1].reachable /\ boot[1].csv.exists
  /\ Len(boot[1].csv.rows) = 1 /\ RowsComplete
  /\ boot[1].csv.rows[1]["name"] = <<"Maura Healey">>
  /\ Len(db) = 2
  /\ db[1].name = "Michelle Wu" /\ db[2].name = "John Roe"
  /\ boot[1].ok

(***************************************************************************)
(* calculate_time_in_office on its own: one start date rendered on one of  *)
(* the days from Today on                                                  *)
(***************************************************************************)
\* bound: the days after Today on which the function may be called
MaxDaysAhead == 40

\* start dates, each with the whole days from it to Today (2026-11-03)
DatedStarts ==
  << <<"2026-11-03", 0>>, <<"2026-11-02", 1>>, <<"2026-10-05", 29>>, <<"2026-9-4", 60>>,
     <<"2025-11-04", 364>>, <<"2025-10-10", 389>>, <<"2025-09-29", 400>>,
     <<"2024-11-20", 713>>, <<"2024-02-29", 978>>, <<"2021-11-16", 1813>>,
     <<"2013-01-03", 5052>>, <<"2026-12-25", 0 - 52>> >>

\* a missing start date and texts strptime refuses
BadStarts ==
  {Nothing, Just(""), Just("not a date"), Just("2021-13-01"), Just("11/16/2021"),
   Just("2023-02-29"), Just("2021-11-16 "), Just(" 2021-11-16"), Just("21-11-16")}

StartDates == {Just(DatedStarts[k][1]) : k \in 1..Len(DatedStarts)} \cup BadStarts

InitTenure ==
  /\ phase = "up"
  /\ db = <<>>
  /\ boot = <<>>
  /\ sessions = <<>>
  /\ added = <<>>
  /\ reqs = <<>>
  /\ clock = 0
  /\ today \in Today..(Today + MaxDaysAhead)
  /\ arg = <<>>
  /\ out = <<>>

\* ResponseGenerator.calculate_time_in_office(start_date_str)
TimeInOffice(start_date_str) ==
  /\ arg = <<>>
  /\ arg' = [start_date_str |-> start_date_str]
  /\ out' = calculate_time_in_office(start_date_str, today)
  /\ UNCHANGED <<phase, db, boot, sessions, added, reqs, clock, today>>

NextTenure == \E start_date_str \in StartDates : TimeInOffice(start_date_str)

SpecTenure == InitTenure /\ [][NextTenure]_vars

\* the whole days from the k-th dated start to the day of the call
DaysAgo(k) == DatedStarts[k][2] + (today - Today)

\* "1 year", "2 years", "0 months", ...
Counted(n, unit) == IntToStr(n) \o " " \o unit \o (IF n = 1 THEN "" ELSE "s")

\* the tenure the rule gives for d whole days
ExpectedTenure(d) ==
  IF d >= 365 THEN Counted(d \div 365, "year") \o " and " \o Counted((d % 365) \div 30, "month")
  ELSE IF d >= 30 THEN Counted(d \div 30, "month")
  ELSE Counted(d, "day")

\* C10: a start date d >= 0 whole days before now renders as "N year(s) and M
\* month(s)" with N = d div 365, M = (d mod 365) div 30 when d >= 365, as "M
\* month(s)" with M = d div 30 when 30 <= d < 365, as "D day(s)" otherwise;
\* 400 days render as "1 year and 1 month"; a missing or unparsable start
\* date renders as "unknown duration"
C10_TenureRendered ==
  arg # <<>> =>
    /\ \A k \in 1..Len(DatedStarts) :
         (arg.start_date_str = Just(DatedStarts[k][1]) /\ DaysAgo(k) >= 0) =>
           /\ out = ExpectedTenure(DaysAgo(k))
           /\ DaysAgo(k) = 400 => out = "1 year and 1 month"
    /\ arg.start_date_str \in BadStarts => out = "unknown duration"

\* C10 happens: a start date 400 days before the day of the call is rendered
C10_Witness ==
  /\ arg # <<>>
  /\ today = Today + 11
  /\ arg.start_date_str = <<"2025-10-10">>
  /\ DaysAgo(6) = 400
  /\ out = "1 year and 1 month"

(***************************************************************************)
(* The order of the steps of a request, and what it records                *)
(***************************************************************************)
\* the history of a session before and after a step (empty while the session
\* does not exist)
HistoryNow(session_id) ==
  IF session_id \in DOMAIN sessions THEN sessions[session_id].history ELSE <<>>
HistoryNext(session_id) ==
  IF session_id \in DOMAIN sessions' THEN sessions'[session_id].history ELSE <<>>

\* the step returns the response of request k
Completes(k) ==
  /\ k <= Len(reqs)
  /\ reqs[k].pc = "awaiting_store"
  /\ reqs'[k].pc = "done"

\* the step is the arrival of request k
Arrives(k) == k = Len(reqs) + 1 /\ Len(reqs') = k

\* C11: within a request the steps happen in the order enhance,
\* extract/classify, search, render, record: a request that arrives has its
\* enhanced query, intent and search term and no response yet; the step that
\* returns its response searches with that term, renders and appends one
\* exchange to the history of its session, holding the caller's original
\* query and exactly the response returned; no other step changes a history
\* and a returned request is never recorded again
C11_RecordedOnceAfterRender ==
  [][/\ \A k \in 1..Len(reqs') :
          /\ Arrives(k) =>
               /\ reqs'[k].pc = "awaiting_store" /\ reqs'[k].response = ""
               /\ reqs'[k].search_term = extract_search_terms(reqs'[k].enhanced_query)
               /\ HistoryNext(reqs'[k].session_id) = HistoryNow(reqs'[k].session_id)
          /\ Completes(k) =>
               /\ reqs'[k].query = reqs[k].query
               /\ reqs'[k].search_term = reqs[k].search_term
               /\ reqs'[k].response =
                    generate_response(reqs'[k].officials, reqs[k].intent_analysis,
                                      reqs[k].query, today)
               /\ Len(HistoryNext(reqs[k].session_id)) = Len(HistoryNow(reqs[k].session_id)) + 1
               /\ SubSeq(HistoryNext(reqs[k].session_id), 1, Len(HistoryNow(reqs[k].session_id)))
                    = HistoryNow(reqs[k].session_id)
               /\ HistoryNext(reqs[k].session_id)[Len(HistoryNext(reqs[k].session_id))].query
                    = reqs[k].query
               /\ HistoryNext(reqs[k].session_id)[Len(HistoryNext(reqs[k].session_id))].response
                    = reqs'[k].response
          /\ (k <= Len(reqs) /\ reqs[k].pc = "done") => reqs'[k] = reqs[k]
     /\ \A session_id \in SessionIds :
          HistoryNext(session_id) # HistoryNow(session_id)
            => \E k \in 1..Len(reqs) : Completes(k) /\ reqs[k].session_id = session_id
    ]_vars

\* C11 happens: a request whose query enhancement rewrote has returned, and
\* the last exchange of its session holds the original query and the response
C11_Witness ==
  \E k \in 1..Len(reqs) :
     /\ reqs[k].pc = "done"
     /\ reqs[k].enhanced_query # reqs[k].query
     /\ Len(sessions[reqs[k].session_id].history) = 2
     /\ sessions[reqs[k].session_id].history[2].query = reqs[k].query
     /\ sessions[reqs[k].session_id].history[2].response = reqs[k].response
     /\ reqs[k].response # ""

(***************************************************************************)
(* Pronouns without a recent name                                          *)
(***************************************************************************)
\* a query with a whole-word feminine pronoun was enhanced against a history
\* whose last 3 exchanges mention no name of the female allow-list
FeminineDefaulted ==
  /\ arg # <<>>
  /\ TokensFrom(arg.query, 1) \cap FemininePronouns # {}
  /\ Mentions(FemaleAllowList, 3) = {}

\* the query with its feminine pronouns replaced by the default name, and
\* then its masculine pronouns by the most recent male name if any
ExpectedDefaulted ==
  IF Mentions(MaleAllowList, 3) = {}
  THEN ReplaceTokens(arg.query, FemininePronouns, "Michelle Wu")
  ELSE ReplaceTokens(ReplaceTokens(arg.query, FemininePronouns, "Michelle Wu"),
                     MasculinePronouns, LatestName(Mentions(MaleAllowList, 3)))

\* C12: if the query holds a whole-word feminine pronoun and the people of the
\* last 3 exchanges hold no name of the female allow-list (the history may be
\* empty, or hold such a name 4 or more exchanges ago), every occurrence of
\* the pronoun is replaced by the default name "Michelle Wu"
C12_FemininePronounDefaulted ==
  FeminineDefaulted =>
    /\ out.resolved = ExpectedDefaulted
    /\ TokensFrom(out.resolved, 1) \cap FemininePronouns = {}
    /\ TokensFrom(out.enhanced, 1) \cap FemininePronouns = {}
    /\ Contains(out.enhanced, "Michelle Wu")

\* C12 happens: the only name of the allow-list was mentioned 4 exchanges
\* ago, and it is not the default name
C12_Witness ==
  /\ FeminineDefaulted
  /\ arg.query = "she said her plan is hers"
  /\ Len(HistoryBefore) = 4
  /\ HistoryBefore[1].entities.people = <<"Maura Healey", "Elizabeth Warren">>
  /\ out.enhanced = "Michelle Wu said Michelle Wu plan is Michelle Wu"

\* the name that stands for the feminine pronouns of the query
FeminineName ==
  IF Mentions(FemaleAllowList, 3) = {} THEN "Michelle Wu"
  ELSE LatestName(Mentions(FemaleAllowList, 3))

\* a query with a whole-word masculine pronoun was enhanced against a history
\* whose last 3 exchanges mention no name of the male allow-list
MasculineUnresolved ==
  /\ arg # <<>>
  /\ TokensFrom(arg.query, 1) \cap MasculinePronouns # {}
  /\ Mentions(MaleAllowList, 3) = {}

\* the maximal runs of word characters of s from position i that are
\* masculine pronouns, as written, in order
RECURSIVE MasculineWordsFrom(_, _)
MasculineWordsFrom(s, i) ==
  IF i > Len(s) THEN <<>>
  ELSE (IF lower(SubSeq(s, i, TokenEnd(s, i))) \in MasculinePronouns
        THEN <<SubSeq(s, i, TokenEnd(s, i))>> ELSE <<>>)
       \o MasculineWordsFrom(s, TokenEnd(s, i) + 1)

\* C13: if the query holds a masculine pronoun and the people of the last 3
\* exchanges hold no name of the male allow-list, pronoun resolution leaves
\* the masculine pronouns as they are (only feminine pronouns are replaced);
\* a query without any whole-word pronoun is returned unchanged whatever the
\* history is
C13_MasculineLeftUnresolved ==
  arg # <<>> =>
    /\ MasculineUnresolved =>
         /\ out.resolved = ReplaceTokens(arg.query, FemininePronouns, FeminineName)
         /\ MasculineWordsFrom(out.resolved, 1) = MasculineWordsFrom(arg.query, 1)
    /\ TokensFrom(arg.query, 1) \cap (FemininePronouns \cup MasculinePronouns) = {}
         => out.resolved = arg.query

\* C13 happens: three masculine pronouns stay although a name of the male
\* allow-list was mentioned 4 exchanges ago
C13_Witness ==
  /\ MasculineUnresolved
  /\ arg.query = "tell him where he left His hat"
  /\ Len(HistoryBefore) = 4
  /\ HistoryBefore[1].entities.people = <<"Ed Markey">>
  /\ MasculineWordsFrom(out.resolved, 1) = <<"him", "he", "His">>
  /\ out.resolved = arg.query

(***************************************************************************)
(* What the history of a session holds                                     *)
(***************************************************************************)
\* the exchanges of the history of the session, given the n exchanges ever
\* added to it: the last min(20, n) of them, in the order they were added
HoldsLatest(history, all) ==
  /\ Len(history) = (IF Len(all) < 20 THEN Len(all) ELSE 20)
  /\ \A i \in 1..Len(history) : history[i] = all[Len(all) - Len(history) + i]

\* C14: after every add_exchange on a session, its history is the last
\* min(20, n) of the n exchanges ever added to it, in the order they were
\* added: the oldest are evicted first and the newest is the last element
C14_HistoryHoldsLatest ==
  \A session_id \in DOMAIN sessions :
     /\ session_id \in DOMAIN added
     /\ HoldsLatest(sessions[session_id].history, added[session_id])

\* C14 happens: 22 exchanges were added to a session, the first two were
\* evicted and the newest is the last of the history
C14_Witness ==
  \E session_id \in DOMAIN sessions :
     /\ Len(added[session_id]) = 22
     /\ Len(sessions[session_id].history) = 20
     /\ sessions[session_id].history[1] = added[session_id][3]
     /\ sessions[session_id].history[1] # added[session_id][1]
     /\ sessions[session_id].history[20] = added[session_id][22]

(***************************************************************************)
(* The session table: creation, lifetime and independence of the sessions  *)
(***************************************************************************)
\* the step passes an exchange to add_exchange for the session
AddsTo(session_id) ==
  /\ session_id \in DOMAIN added'
  /\ (session_id \notin DOMAIN added \/ added'[session_id] # added[session_id])

\* C15: a session is created with an empty history on the first reference to
\* its id (an add_exchange that makes the first reference appends to that
\* empty history) and later references find the same state; a session is
\* never removed; a step that adds an exchange to one session, or refers to
\* it, leaves the history and the current entities of every other session
\* unchanged
C15_SessionsIndependent ==
  [][/\ DOMAIN sessions \subseteq DOMAIN sessions'
     /\ \A s \in DOMAIN sessions' \ DOMAIN sessions :
          /\ sessions'[s].history = added'[s]
          /\ Len(sessions'[s].history) <= 1
          /\ sessions'[s].history = <<>> => sessions'[s].current_entities = <<>>
     /\ \A s \in DOMAIN sessions :
          (s \in DOMAIN added /\ added'[s] = added[s]) => sessions'[s] = sessions[s]
     /\ \A s \in DOMAIN added', t \in DOMAIN sessions :
          (AddsTo(s) /\ t # s) =>
            /\ sessions'[t].history = sessions[t].history
            /\ sessions'[t].current_entities = sessions[t].current_entities
    ]_vars

\* C15 happens: a session that was referred to and never added to is still
\* there with its empty history after three exchanges on another session
C15_Witness ==
  /\ DOMAIN sessions = {"default", "s2"}
  /\ sessions["s2"].history = <<>>
  /\ sessions["s2"].current_entities = <<>>
  /\ Len(sessions["default"].history) = 3
  /\ sessions["default"].current_entities # <<>>

(***************************************************************************)
(* What changes a history                                                  *)
(***************************************************************************)
\* the step returns the response of request k although the store could not
\* be read
CompletesWithoutStore(k) == Completes(k) /\ ~reqs'[k].reachable

\* C16: a history changes only by the append of one exchange at the end of a
\* completed query-response cycle: the steps that enhance, extract, classify,
\* search and render leave every history as it was, and so does a request
\* that ends in a failure, such as one whose store access failed
C16_HistoryChangedOnlyByCompletedCycle ==
  [][/\ \A session_id \in SessionIds :
          HistoryNext(session_id) # HistoryNow(session_id) =>
            /\ \E k \in 1..Len(reqs) :
                 /\ Completes(k)
                 /\ reqs[k].session_id = session_id
                 /\ reqs'[k].status = "ok"
            /\ Len(HistoryNext(session_id)) = Len(HistoryNow(session_id)) + 1
            /\ SubSeq(HistoryNext(session_id), 1, Len(HistoryNow(session_id)))
                 = HistoryNow(session_id)
     /\ \A k \in 1..Len(reqs) :
          CompletesWithoutStore(k) =>
            \A session_id \in SessionIds : HistoryNext(session_id) = HistoryNow(session_id)
    ]_vars

(***************************************************************************)
(* The implied subject                                                     *)
(***************************************************************************)
\* the enhanced query is the resolved query with a subject before it
SubjectPrepended ==
  /\ out.enhanced # out.resolved
  /\ EndsWith(out.enhanced, " " \o out.resolved)

\* the resolved query names a person of the allow-lists
NamesPerson ==
  \E name \in FemaleAllowList \cup MaleAllowList : Contains(lower(out.resolved), lower(name))

\* the resolved query holds a salary or time-in-office keyword
AsksSalaryOrTime ==
  \/ \E w \in {"salary", "pay", "money", "earn", "make", "income"} :
        Contains(lower(out.resolved), w)
  \/ \E w \in {"how long", "when did", "since when", "term", "been in office"} :
        Contains(lower(out.resolved), w)

\* C17: a subject is prepended only when the query, after pronoun resolution,
\* holds a salary or time-in-office keyword, names no person and holds no
\* interrogative word (who, what); a query that names a person, also by a name
\* just substituted for a pronoun, is never given a prepended subject
C17_SubjectPrependedOnlyWhenUnnamed ==
  (arg # <<>> /\ SubjectPrepended) =>
    /\ AsksSalaryOrTime
    /\ ~NamesPerson
    /\ ~Contains(lower(out.resolved), "who")
    /\ ~Contains(lower(out.resolved), "what")

(***************************************************************************)
(* C18: the office, name and general branches are tried in this order and  *)
(* one of them gives the whole result                                      *)
(***************************************************************************)


\* the pattern of the substring branches: the normalized term of the search
SearchPattern == normalize_search_term(arg.term)

\* the analysis of the search has target t
Targets(t) == \E k \in 1..Len(arg.target_info) : arg.target_info[k] = t

\* text holds pattern p, letter case aside
HoldsPattern(text, p) == Contains(lower(text), lower(p))

\* the salary filter of the substring branches keeps official r
SalaryKept(r) == Targets("salary") => r.annual_salary # Nothing

\* the officials whose office holds pattern p and that the filter keeps
OfficeMatches(p) ==
  AtIndices(db, {k \in 1..Len(db) : HoldsPattern(db[k].office, p) /\ SalaryKept(db[k])})

\* the officials whose name holds pattern p and that the filter keeps
NameMatches(p) ==
  AtIndices(db, {k \in 1..Len(db) : HoldsPattern(db[k].name, p) /\ SalaryKept(db[k])})

\* official r is within the reach of the general fallback for pattern p: its
\* name, office or level holds the pattern
GeneralReach(r, p) ==
  \/ HoldsPattern(r.name, p)
  \/ HoldsPattern(r.office, p)
  \/ (r.level # Nothing /\ HoldsPattern(r.level[1], p))

\* an intent-prioritised branch is entered for pattern p and finds its fixed
\* holder
PriorityReturned(p) ==
  IF (Targets("time_in_office") \/ Targets("contact")) /\ p \in {"governor", "mayor"}
  THEN \E k \in 1..Len(db) : /\ HoldsPattern(db[k].office, p)
                             /\ db[k].name \in {"Maura Healey", "Michelle Wu"}
  ELSE IF Targets("party") /\ p = "senator"
  THEN \E k \in 1..Len(db) : /\ Contains(lower(db[k].office), "senator")
                             /\ db[k].level = <<"Federal">>
                             /\ db[k].name = "Elizabeth Warren"
  ELSE IF Targets("education")
  THEN \E k \in 1..Len(db) : /\ lower(db[k].office) \in {"senator", "u.s. senator"}
                             /\ db[k].level = <<"Federal">>
                             /\ db[k].name = "Elizabeth Warren"
  ELSE IF Targets("policy") /\ p = "mayor"
  THEN \E k \in 1..Len(db) : /\ Contains(lower(db[k].office), "mayor")
                             /\ db[k].name = "Michelle Wu"
  ELSE FALSE

\* a search on a readable store with a term that neither the party branch
\* nor the district branch answers
PastPartyAndDistrict ==
  /\ Searched
  /\ ~(HasDemocratKeyword \/ HasRepublicanKeyword \/ HasNonpartisanKeyword)
  /\ DistrictDigits = <<>>

\* the result is made of officials of the store, each at most once and in the
\* order of the store, all within the reach of the general fallback for
\* pattern p, and it misses no official within that reach that the salary
\* filter keeps
FromGeneralFallback(p) ==
  /\ \E S \in SUBSET (1..Len(db)) : out.officials = AtIndices(db, S)
  /\ \A i \in 1..Len(out.officials) : GeneralReach(out.officials[i], p)
  /\ \A k \in 1..Len(db) :
        (GeneralReach(db[k], p) /\ SalaryKept(db[k]))
          => \E i \in 1..Len(out.officials) : out.officials[i] = db[k]

\* the result for pattern p is the list of the first substring branch that
\* finds an official
OneBranchInOrder(p) ==
  IF OfficeMatches(p) # <<>> THEN out.officials = OfficeMatches(p)
  ELSE IF NameMatches(p) # <<>> THEN out.officials = NameMatches(p)
  ELSE FromGeneralFallback(p)

\* C18: when neither the party branch, the district branch nor an
\* intent-prioritised branch returns, the result is the office matches if there
\* is one, else the name matches if there is one, else what the general
\* fallback finds; it is the list of that one branch, never a join of two
C18_OneBranchInOrder ==
  (PastPartyAndDistrict /\ ~PriorityReturned(SearchPattern))
    => OneBranchInOrder(SearchPattern)

\* the office branch answers for pattern p although another official matches
\* by name
OfficeAnswersAlone(p) ==
  /\ ~PriorityReturned(p)
  /\ OfficeMatches(p) # <<>>
  /\ \E k \in 1..Len(db) : HoldsPattern(db[k].name, p) /\ ~HoldsPattern(db[k].office, p)
  /\ out.officials = OfficeMatches(p)

\* C18 happens: the office branch answers alone although another official
\* matches by name
C18_Witness == PastPartyAndDistrict /\ OfficeAnswersAlone(SearchPattern)

(***************************************************************************)
(* C19: the salary filter of the office, name and general branches         *)
(***************************************************************************)

\* every official of the result has a salary
AllWithSalary ==
  \A i \in 1..Len(out.officials) : out.officials[i].annual_salary # Nothing

\* C19: when the analysis has the salary target, every official returned by
\* the office branch, the name branch or the general fallback has a non-null
\* annual salary
C19_SalaryTargetReturnsSalariedOnly ==
  (PastPartyAndDistrict /\ Targets("salary") /\ ~PriorityReturned(SearchPattern))
    => AllWithSalary


(***************************************************************************)
(* C20: the party of the senator                                           *)
(***************************************************************************)

\* official r is the federal senator Elizabeth Warren
IsFederalSenatorWarren(r) ==
  /\ r.name = "Elizabeth Warren"
  /\ r.level = <<"Federal">>
  /\ Contains(lower(r.office), "senator")

\* C20: a search for the term "senator" with the party target, on a store that
\* holds the federal senator Elizabeth Warren, returns exactly that one record
C20_SenatorPartyGivesWarren ==
  (/\ Searched
   /\ arg.term = "senator"
   /\ Targets("party")
   /\ \E k \in 1..Len(db) : IsFederalSenatorWarren(db[k]))
    => /\ Len(out.officials) = 1
       /\ IsFederalSenatorWarren(out.officials[1])
       /\ \E k \in 1..Len(db) : db[k] = out.officials[1]


(***************************************************************************)
(* C21: the time-in-office and contact searches for the governor or mayor  *)
(***************************************************************************)

\* official r is a fixed top holder whose office holds pattern p
TopHolderOf(r, p) ==
  r.name \in {"Maura Healey", "Michelle Wu"} /\ HoldsPattern(r.office, p)

\* the search has the time-in-office or contact target and its pattern p is
\* "governor" or "mayor"
TopHolderAsked(p) ==
  (Targets("time_in_office") \/ Targets("contact")) /\ p \in {"governor", "mayor"}

\* the result is one official of the store, a top holder of pattern p
OneTopHolder(p) ==
  /\ Len(out.officials) = 1
  /\ \E k \in 1..Len(db) : db[k] = out.officials[1]
  /\ TopHolderOf(out.officials[1], p)

\* the result for pattern p is the one top holder when the store has one, and
\* that of the substring branches otherwise
TopHolderFirst(p) ==
  IF \E k \in 1..Len(db) : TopHolderOf(db[k], p)
  THEN OneTopHolder(p)
  ELSE OneBranchInOrder(p)

\* C21: with the time-in-office or contact target and the normalized term
\* "governor" or "mayor", the search returns one record, of a name of the
\* allow-list and an office that holds the term, whenever the store has such a
\* record; only when it has none does it go on to the office branch
C21_TopHolderFirst ==
  (PastPartyAndDistrict /\ TopHolderAsked(SearchPattern)) => TopHolderFirst(SearchPattern)

\* the store has a top holder of pattern p and, before it, another official of
\* the office, and the result is the top holder alone
TopHolderPreferred(p) ==
  /\ TopHolderAsked(p)
  /\ \E k, j \in 1..Len(db) :
        j < k /\ TopHolderOf(db[k], p) /\ HoldsPattern(db[j].office, p)
              /\ ~TopHolderOf(db[j], p)
  /\ OneTopHolder(p)

\* C21 happens: the mayor's aide comes first in the store and the search
\* returns the mayor alone
C21_Witness == PastPartyAndDistrict /\ TopHolderPreferred(SearchPattern)


(***************************************************************************)
(* Rendering: generate_response on the officials of a store                *)
(***************************************************************************)

\* the target lists rendered: none, each target alone, and lists of several
\* in the order analyze_query_intent gives and in other orders
RenderTargets ==
  {<<>>, <<"salary">>, <<"time_in_office">>, <<"contact">>, <<"party">>, <<"education">>,
   <<"career">>, <<"policy">>,
   <<"salary", "education">>, <<"party", "career">>, <<"contact", "party">>,
   <<"time_in_office", "contact">>, <<"salary", "policy">>, <<"policy", "salary">>,
   <<"party", "salary">>,
   <<"salary", "time_in_office", "contact", "party", "education", "career", "policy">>}

DetailLevels == {"basic", "detailed"}

\* generate_response(officials, intent_analysis, original_query) with all the
\* officials of the store as the result list
Render(target_info, detail_level) ==
  /\ arg = <<>>
  /\ arg' = [officials |-> db, target_info |-> target_info, detail_level |-> detail_level]
  /\ out' = generate_response(db, [Intent(target_info) EXCEPT !.detail_level = detail_level],
                              "officials", today)
  /\ UNCHANGED <<phase, db, boot, sessions, added, reqs, clock, today>>

NextRender ==
  \E target_info \in RenderTargets, detail_level \in DetailLevels :
     Render(target_info, detail_level)

SpecRender == InitSearch /\ [][NextRender]_vars

(***************************************************************************)
(* C22: the template of a single official                                  *)
(***************************************************************************)

\* the templates of a single official, in the order the renderer checks them
TemplateOrder ==
  <<"education", "career", "policy", "salary", "time_in_office", "contact", "party">>

\* the words by which a response shows its template: those of the form with
\* the information and of the form without it
TemplateMarks(t) ==
  IF t = "education" THEN {"** graduated from **", "educational background information for **"}
  ELSE IF t = "career" THEN {"**Before entering office, ", "career background information for **"}
  ELSE IF t = "policy" THEN {"** focuses on: **", "policy focus information for **"}
  ELSE IF t = "salary" THEN {"** earns **$", "salary information for **"}
  ELSE IF t = "time_in_office" THEN {"** has been ", "start date information for **"}
  ELSE IF t = "contact" THEN {"**Contact "}
  ELSE IF t = "party" THEN {"** is affiliated with the **", "party affiliation information for **"}
  ELSE IF t = "detailed" THEN {"** - "}
  ELSE {"** is the "}

AllTemplates ==
  {"education", "career", "policy", "salary", "time_in_office", "contact", "party",
   "detailed", "basic"}

\* the response is written with template t
UsesTemplate(t) == \E mark \in TemplateMarks(t) : Contains(out, mark)

\* target t is in the target list rendered
Rendering(t) == \E k \in 1..Len(arg.target_info) : arg.target_info[k] = t

\* the template the claim names: that of the first category of the checked
\* order that is in the target list; with an empty list, that of the detail
\* level
ChosenTemplate ==
  IF \E k \in 1..Len(TemplateOrder) : Rendering(TemplateOrder[k])
  THEN TemplateOrder[MinOf({k \in 1..Len(TemplateOrder) : Rendering(TemplateOrder[k])})]
  ELSE IF arg.detail_level = "detailed" THEN "detailed"
  ELSE "basic"

\* one official has been rendered
RenderedOne == arg # <<>> /\ Len(arg.officials) = 1

\* C22: a result list of exactly one official is rendered with exactly one
\* template, that of the first category of the order education, career, policy,
\* salary, time-in-office, contact, party that is in the target list, whatever
\* the order of the list; with an empty list it is the detailed block for
\* detail level "detailed" and the basic summary otherwise
C22_OneTemplateInCheckedOrder ==
  RenderedOne =>
    /\ \A t \in AllTemplates : UsesTemplate(t) <=> (t = ChosenTemplate)
    /\ (ChosenTemplate \in {"detailed", "basic"} <=> arg.target_info = <<>>)
    /\ Contains(out, arg.officials[1].name)

\* C22 happens: the list names salary before education and the response is
\* the education template
C22_Witness ==
  /\ RenderedOne
  /\ arg.target_info = <<"salary", "education">>
  /\ UsesTemplate("education")
  /\ ~UsesTemplate("salary")


(***************************************************************************)
(* C23: the list of several officials                                      *)
(***************************************************************************)

\* the lines of text s from position i on
RECURSIVE LinesFrom(_, _)
LinesFrom(s, i) ==
  IF \E j \in i..Len(s) : OccursAt(s, "\n", j)
  THEN <<SubSeq(s, i, MinOf({j \in i..Len(s) : OccursAt(s, "\n", j)}) - 1)>>
       \o LinesFrom(s, MinOf({j \in i..Len(s) : OccursAt(s, "\n", j)}) + 1)
  ELSE <<SubSeq(s, i, Len(s))>>

\* the lines of the response after the heading and the empty line
ListEntries == SubSeq(LinesFrom(out, 1), 3, Len(LinesFrom(out, 1)))

\* two or more officials have been rendered
RenderedSeveral == arg # <<>> /\ Len(arg.officials) >= 2

\* the response is a heading and one entry for each official of the result
OneEntryEach ==
  /\ Len(LinesFrom(out, 1)) = Len(arg.officials) + 2
  /\ LinesFrom(out, 1)[1] = "**Found multiple officials matching your query**:"
  /\ LinesFrom(out, 1)[2] = ""

\* entry e names official r: its name, its office, and its district when it
\* has a district type and number, else its area when it has one
EntryNames(e, r) ==
  /\ Contains(e, r.name)
  /\ Contains(e, r.office)
  /\ IF TruthyText(r.district_type) /\ TruthyText(r.district_number)
     THEN Contains(e, r.district_type[1] \o " " \o r.district_number[1])
     ELSE TruthyText(r.district_area) => Contains(e, r.district_area[1])

\* entry e shows the party of official r when it has one, and its email
EntryShowsPartyAndEmail(e, r) ==
  /\ TruthyText(r.party) => Contains(e, r.party[1])
  /\ TruthyText(r.email) => Contains(e, r.email[1])

\* C23 as stated: a result list of two or more officials is rendered as one
\* entry per official in result order, each with the official's name, office,
\* party when present, district or area when present, and contact email
C23_EntriesWithPartyAndEmail ==
  RenderedSeveral =>
    /\ OneEntryEach
    /\ \A k \in 1..Len(arg.officials) :
          /\ EntryNames(ListEntries[k], arg.officials[k])
          /\ EntryShowsPartyAndEmail(ListEntries[k], arg.officials[k])

\* C23 amended: a result list of two or more officials is rendered as one
\* entry per official in result order, each with the official's name, office
\* and district or area when present
C23_EntriesInResultOrder ==
  RenderedSeveral =>
    /\ OneEntryEach
    /\ \A k \in 1..Len(arg.officials) : EntryNames(ListEntries[k], arg.officials[k])

\* C23 happens: two officials, the first with an area and the second with a
\* district, are listed in this order
C23_Witness ==
  /\ RenderedSeveral
  /\ OneEntryEach
  /\ ~TruthyText(arg.officials[1].district_type) /\ TruthyText(arg.officials[1].district_area)
  /\ TruthyText(arg.officials[2].district_type) /\ TruthyText(arg.officials[2].district_number)
  /\ EntryNames(ListEntries[1], arg.officials[1])
  /\ EntryNames(ListEntries[2], arg.officials[2])
  /\ ~EntryNames(ListEntries[1], arg.officials[2])


(***************************************************************************)
(* analyze_query_intent on its own: one query, one analysis                *)
(***************************************************************************)
IntentQueries ==
  ExtractQueries
    \cup {"tell me about who the mayor is", "who is the mayor about",
          "what school did she attend and what is her salary", "email or salary",
          "her party, her pay and her term", "details", "WHAT IS the Salary of the Mayor",
          "how long has she been in office", "what did she do before office",
          "policy, career, education, party, contact, term and salary",
          "where did Michelle Wu go to college", "who"}

\* QueryAnalyzer.analyze_query_intent(query)
Analyze(query) ==
  /\ arg = <<>>
  /\ arg' = [query |-> query]
  /\ out' = analyze_query_intent(query)
  /\ UNCHANGED <<phase, db, boot, sessions, added, reqs, clock, today>>

NextIntent == \E query \in IntentQueries : Analyze(query)

SpecIntent == Init /\ [][NextIntent]_vars

(***************************************************************************)
(* C24: the targets and the detail level of an analysis                    *)
(***************************************************************************)

\* the keyword groups in their scan order
ScanOrder ==
  <<"salary", "time_in_office", "contact", "party", "education", "career", "policy">>

\* the place of target t in the scan order
ScanIndex(t) == CHOOSE k \in 1..Len(ScanOrder) : ScanOrder[k] = t

\* the keywords of the k-th group
GroupKeywords(k) == {target_mappings[k][2][i] : i \in 1..Len(target_mappings[k][2])}

\* the k-th group has a keyword in the query, letter case aside
GroupInQuery(k) == \E w \in GroupKeywords(k) : Contains(lower(arg.query), w)

\* the query holds one of the phrases that ask for details
AsksDetails ==
  \E w \in {"what is", "tell me about", "about", "details"} : Contains(lower(arg.query), w)

\* a query has been analysed
Analysed == arg # <<>>

\* the targets of the analysis are the groups with a keyword in the query,
\* each once, in scan order
TargetsInScanOrder ==
  /\ \A k \in 1..Len(ScanOrder) :
        GroupInQuery(k) <=> \E i \in 1..Len(out.target_info) : out.target_info[i] = ScanOrder[k]
  /\ \A i \in 1..Len(out.target_info) :
        \E k \in 1..Len(ScanOrder) : out.target_info[i] = ScanOrder[k]
  /\ \A i, j \in 1..Len(out.target_info) :
        i < j => ScanIndex(out.target_info[i]) < ScanIndex(out.target_info[j])

\* C24: the analysis lists exactly the keyword groups that have a keyword in
\* the query, each once, in the scan order salary, time_in_office, contact,
\* party, education, career, policy whatever the order of the words ("how
\* much does the mayor make" gives salary alone); its detail level is
\* "detailed" if and only if the query holds "what is", "tell me about",
\* "about" or "details", and "basic" otherwise, also for a query with "who"
C24_TargetsInScanOrder ==
  Analysed =>
    /\ TargetsInScanOrder
    /\ (arg.query = "how much does the mayor make" => out.target_info = <<"salary">>)
    /\ out.detail_level = (IF AsksDetails THEN "detailed" ELSE "basic")

\* C24 happens: a query that holds "what is" and names a school before a
\* salary is analysed as detailed, with the salary target first
C24_Witness ==
  /\ Analysed
  /\ arg.query = "what school did she attend and what is her salary"
  /\ out.target_info = <<"salary", "education">>
  /\ out.detail_level = "detailed"


(***************************************************************************)
(* extract_entities on its own: one text, one extraction                   *)
(***************************************************************************)
EntityTexts ==
  IntentQueries
    \cup {"the senator and the mayor", "Republican or Democrat", "email, phone or salary",
          "Michelle Wu met Ed Flynn and Michelle Wu", "district 5, district 2 and district 5",
          "The Mayor of Boston and the Attorney General",
          "who is the mayor **Michelle Wu** is the Mayor of Boston (Nonpartisan).",
          "the term of office of the independent councilor of District 9",
          "contact the governor before the election", ""}

\* ConversationContext.extract_entities(text)
Entities(text) ==
  /\ arg = <<>>
  /\ arg' = [text |-> text]
  /\ out' = extract_entities(text)
  /\ UNCHANGED <<phase, db, boot, sessions, added, reqs, clock, today>>

NextEntities == \E text \in EntityTexts : Entities(text)

SpecEntities == Init /\ [][NextEntities]_vars

(***************************************************************************)
(* C25: the categories of extract_entities and the order of their entries  *)
(***************************************************************************)

\* the first place from position i on where needle occurs in s, 0 when none
FirstAt(s, needle, i) ==
  IF \E j \in i..Len(s) : OccursAt(s, needle, j)
  THEN MinOf({j \in i..Len(s) : OccursAt(s, needle, j)})
  ELSE 0

\* the entries of list from the k-th on occur in s one after the other, from
\* position i on
RECURSIVE OccurInTurn(_, _, _, _)
OccurInTurn(list, s, k, i) ==
  IF k > Len(list) THEN TRUE
  ELSE /\ FirstAt(s, list[k], i) > 0
       /\ OccurInTurn(list, s, k + 1, FirstAt(s, list[k], i) + Len(list[k]))

\* the entries of list are in the order of their first occurrences in s
ByFirstOccurrence(list, s) ==
  /\ \A k \in 1..Len(list) : FirstAt(s, list[k], 1) > 0
  /\ \A i, j \in 1..Len(list) : i < j => FirstAt(s, list[i], 1) < FirstAt(s, list[j], 1)

\* list holds the keywords that occur in s, each once, in the order of the
\* keyword list
InKeywordOrder(list, keywords, s) ==
  /\ \A k \in 1..Len(keywords) :
        Contains(s, keywords[k]) <=> \E i \in 1..Len(list) : list[i] = keywords[k]
  /\ \A i, j \in 1..Len(list) :
        i < j => \E k, l \in 1..Len(keywords) :
                    k < l /\ list[i] = keywords[k] /\ list[j] = keywords[l]
  /\ \A i \in 1..Len(list) : \E k \in 1..Len(keywords) : list[i] = keywords[k]

\* a text has been searched for entities
Extracted == arg # <<>>

\* the result has the five categories, each a list
FiveLists ==
  /\ DOMAIN out = {"people", "offices", "districts", "parties", "concepts"}
  /\ \A c \in DOMAIN out : DOMAIN out[c] = 1..Len(out[c])

\* people and districts are in the order of their occurrences in the text
MatchesInTextOrder ==
  /\ OccurInTurn(out.people, arg.text, 1, 1)
  /\ OccurInTurn(out.districts, lower(arg.text), 1, 1)

\* C25 as stated: the result has the five categories people, offices,
\* districts, parties, concepts, each a list, and in every category the
\* entries are in the order of their first-to-last occurrence in the text, for
\* offices, parties and concepts too
C25_EveryCategoryInTextOrder ==
  Extracted =>
    /\ FiveLists
    /\ MatchesInTextOrder
    /\ ByFirstOccurrence(out.offices, lower(arg.text))
    /\ ByFirstOccurrence(out.parties, lower(arg.text))
    /\ ByFirstOccurrence(out.concepts, lower(arg.text))

\* C25 amended: the result has the five categories, each a list; people and
\* districts are in the order of their occurrences in the text; offices,
\* parties and concepts hold the keywords that occur in the text, each once,
\* in the order of the keyword list
C25_MatchesInTextOrderKeywordsInListOrder ==
  Extracted =>
    /\ FiveLists
    /\ MatchesInTextOrder
    /\ InKeywordOrder(out.offices, office_keywords, lower(arg.text))
    /\ InKeywordOrder(out.parties, party_keywords, lower(arg.text))
    /\ InKeywordOrder(out.concepts, concept_keywords, lower(arg.text))

\* C25 happens: a text names the senator before the mayor, and the offices
\* found are the mayor and the senator
C25_Witness ==
  /\ Extracted
  /\ FirstAt(lower(arg.text), "senator", 1) > 0
  /\ FirstAt(lower(arg.text), "senator", 1) < FirstAt(lower(arg.text), "mayor", 1)
  /\ out.offices = <<"mayor", "senator">>


(***************************************************************************)
(* C26: the implied subject is prepended at most once                      *)
(***************************************************************************)

\* the people entities of the last two exchanges, as a set of names
RecentNames ==
  UNION {{HistoryBefore[k].entities.people[i] : i \in 1..Len(HistoryBefore[k].entities.people)} :
           k \in {j \in 1..Len(HistoryBefore) : j > Len(HistoryBefore) - 2}}

\* C26: the enhanced query is the pronoun-resolved query, or that query with
\* the governor substitution, or exactly one recent person name followed by
\* the pronoun-resolved query, also for a query with both a salary keyword and
\* a time-in-office keyword
C26_SubjectPrependedAtMostOnce ==
  arg # <<>> =>
    \/ out.enhanced = out.resolved
    \/ out.enhanced = ReplaceTokens(out.resolved, {"governor"}, "Maura Healey")
    \/ \E name \in RecentNames : out.enhanced = name \o " " \o out.resolved


(***************************************************************************)
(* C27: a search for the name of an official                               *)
(***************************************************************************)

\* the term of the search is the name of an official of the store
TermIsNameInStore == \E k \in 1..Len(db) : db[k].name = arg.term

\* C27: when the term is the name of an official of the store and holds no
\* party keyword and no district pattern, every record returned has a name
\* that contains the term, letter case aside, whatever the targets of the
\* analysis are
C27_NameSearchReturnsThatName ==
  (PastPartyAndDistrict /\ TermIsNameInStore) =>
    \A i \in 1..Len(out.officials) :
       Contains(lower(out.officials[i].name), lower(arg.term))


(***************************************************************************)
(* C28: the months of a rendered tenure                                    *)
(***************************************************************************)

\* the tenure is rendered with m months: "M months" or "N years and M months"
MonthsRendered(m) ==
  \/ out = Counted(m, "month")
  \/ EndsWith(out, " and " \o Counted(m, "month"))

\* the tenure is rendered in the "N years and M months" form
YearsForm == Contains(out, " year")

\* the whole days from the start date of the call to the day of the call
DaysSinceStart ==
  DaysAgo(CHOOSE k \in 1..Len(DatedStarts) : arg.start_date_str = Just(DatedStarts[k][1]))

\* a tenure has been computed from a start date that is a date
TenureOfDate ==
  /\ arg # <<>>
  /\ \E k \in 1..Len(DatedStarts) : arg.start_date_str = Just(DatedStarts[k][1])

\* C28: for a start date that is not in the future the months number of the
\* rendered tenure is at most 11, 0..11 in the "N years and M months" form and
\* 1..11 in the "M months" form; a start date in the future never renders a
\* positive number of months or years
C28_MonthsAtMostEleven ==
  TenureOfDate =>
    /\ DaysSinceStart >= 0 =>
         /\ \A m \in 12..400 : ~MonthsRendered(m)
         /\ YearsForm => \E m \in 0..11 : MonthsRendered(m)
         /\ (~YearsForm /\ Contains(out, "month")) => \E m \in 1..11 : MonthsRendered(m)
    /\ DaysSinceStart < 0 =>
         /\ \A m \in 1..400 : ~MonthsRendered(m)
         /\ ~YearsForm


(***************************************************************************)
(* Overlapping requests on a session with a long history                   *)
(***************************************************************************)

\* bound: the exchanges of the session before the requests of the model
MaxEarlier == 20

\* the session table after n earlier requests on session "default"
RECURSIVE EarlierTable(_)
EarlierTable(n) ==
  IF n = 0 THEN get_session(<<>>, "default")
  ELSE add_exchange(EarlierTable(n - 1), "default", ExchangeQuery, ExchangeResponse, n)

\* the exchanges these requests passed to add_exchange
RECURSIVE EarlierLog(_)
EarlierLog(n) ==
  IF n = 0 THEN Known(<<>>, "default")
  ELSE Logged(EarlierLog(n - 1), "default", Exchange(ExchangeQuery, ExchangeResponse, n))

\* the service after a successful startup and MaxEarlier - 1 or MaxEarlier
\* requests on session "default", all returned
InitOverlap ==
  /\ phase = "up"
  /\ db = init_database(<<>>, OfficialsCsv, TRUE).db
  /\ boot = <<>>
  /\ clock \in {MaxEarlier - 1, MaxEarlier}
  /\ sessions = EarlierTable(clock)
  /\ added = EarlierLog(clock)
  /\ reqs = <<>>
  /\ today = Today
  /\ arg = <<>>
  /\ out = <<>>

NextOverlap ==
  \/ \E query \in Queries, session_id \in SessionIds : Receive(query, session_id)
  \/ \E k \in 1..MaxRequests, reachable \in BOOLEAN : Respond(k, reachable)

SpecOverlap == InitOverlap /\ [][NextOverlap]_vars

(***************************************************************************)
(* C29: overlapping requests and the histories                             *)
(***************************************************************************)

\* the history after the step is the history before it with one exchange of
\* request k at its end, the oldest exchange evicted when the cap is passed
OneAppended(k, before, after) ==
  /\ after # <<>>
  /\ after[Len(after)].query = reqs[k].query
  /\ after[Len(after)].response = reqs'[k].response
  /\ SubSeq(after, 1, Len(after) - 1) =
       (IF Len(before) < 20 THEN before ELSE SubSeq(before, Len(before) - 18, Len(before)))
  /\ Len(after) <= 20

\* C29: in any interleaving of requests, also of overlapping requests on one
\* session that are suspended at the store access, a request that completes
\* appends exactly one exchange to the history of its own session and none to
\* another; the exchanges appended before stay, in their order, but for the
\* oldest ones beyond the cap; the history holds at most 20 exchanges
C29_OverlappingRequestsAppendOnce ==
  [][\A k \in 1..Len(reqs) :
       Completes(k) =>
         /\ OneAppended(k, HistoryNow(reqs[k].session_id), HistoryNext(reqs[k].session_id))
         /\ \A session_id \in SessionIds \ {reqs[k].session_id} :
               HistoryNext(session_id) = HistoryNow(session_id)
         /\ \A j \in 1..Len(reqs) : (j # k) => reqs'[j] = reqs[j]]_vars

\* C29 happens: two requests on one session overlapped, the later one
\* completed first on a full history and its exchange is the newest, and the
\* earlier one is still suspended
C29_Witness ==
  /\ Len(reqs) >= 2
  /\ reqs[1].session_id = reqs[2].session_id
  /\ reqs[1].pc = "awaiting_store"
  /\ reqs[2].pc = "done"
  /\ Len(sessions[reqs[2].session_id].history) = 20
  /\ Len(added[reqs[2].session_id]) > 20
  /\ sessions[reqs[2].session_id].history[20].response = reqs[2].response

(***************************************************************************)
(* the bulk import that fails on a row                                     *)
(***************************************************************************)
\* the latest run was an import that met a row it could not insert
ImportFailedOnRow == ImportRan /\ ~RowsComplete

\* the latest run raised to its caller: startup_event raised in turn and the
\* service did not come up
RaisedToStartup == ~boot[1].ok /\ phase = "down"

\* the latest run imported every row of its file
ImportedInFull ==
  /\ boot[1].ok /\ phase = "up"
  /\ Len(db) = Len(boot[1].csv.rows)
  /\ \A k \in 1..Len(db) : db[k].name = boot[1].csv.rows[k]["name"][1]

\* C30: the bulk import is all-or-nothing: when it fails on a row of the
\* source (a row without name or office), no row of that import is
\* committed, the error is raised to the startup caller and the relation
\* stays empty; the next startup attempts the full import again: it finds the
\* empty relation and, given a store it can open and a file whose rows are
\* complete, imports all of them
C30_FailedImportCommitsNothing ==
  [][/\ ImportFailedOnRow' => (db' = <<>> /\ RaisedToStartup')
     /\ ImportFailedOnRow =>
          /\ boot'[1].found = <<>>
          /\ (boot'[1].reachable /\ boot'[1].csv.exists) => ImportRan'
          /\ (ImportRan' /\ RowsComplete') => ImportedInFull']_vars

\* C30 happens: a start after an earlier one that left the relation empty
\* runs the import on a file whose first row can be inserted and whose second
\* cannot; it raises, the service stays down and the relation is left empty
C30_Witness ==
  /\ clock = 2
  /\ ImportFailedOnRow
  /\ Len(boot[1].csv.rows) = 2
  /\ RowInsertable(boot[1].csv.header, boot[1].csv.rows[1])
  /\ ~RowInsertable(boot[1].csv.header, boot[1].csv.rows[2])
  /\ db = <<>>
  /\ RaisedToStartup

====
